---- MODULE Spec2Model ----
(***************************************************************************)
(* Emigo orchestration engine (emigo.py, llm_worker.py, session.py).       *)
(*                                                                         *)
(* Spec       : the Orchestrator's threads (frontend RPC threads, stdout   *)
(*              reader threads, queue processor threads), the Worker       *)
(*              subprocess and the pipes between them, at the granularity  *)
(*              of one message per step.                                   *)
(* WorkerSpec : handle_interaction_request in llm_worker.py chunk by chunk *)
(*              (stream deltas, fragment table, tool extraction, tool      *)
(*              execution, end markers, finished), with the Orchestrator's *)
(*              submit and finished handlers around it.                    *)
(***************************************************************************)
EXTENDS Integers, Sequences, FiniteSets, TLC

\* ------------------------------------------------------------------------
\* Bounds of the model and constants of the program
\* ------------------------------------------------------------------------
MaxProcs == 2        \* Worker processes spawned during one run (1 + restarts)
MaxPrompts == 2      \* prompts the frontend submits during one run
MaxToolTurns == 1    \* turns of one interaction in which the LLM calls a tool
MaxDeltas == 3       \* deltas the LLM streams during one run (WorkerSpec)
MaxContent == 3      \* characters of the content of one stream message (FilterSpec)
MaxLines == 3        \* lines of the file replace_in_file works on (ReplaceSpec)
MaxBlocks == 2       \* SEARCH/REPLACE blocks of one diff (ReplaceSpec)
MaxMtime == 3        \* the mtimes a file goes through (CacheSpec)
MaxHistory == 5      \* messages of a history (TruncSpec)
max_turns == 10      \* llm_worker.py: turn limit of one interaction

Sessions == {"s1"}
NoSession == "none"
RpcThreads == {"t1", "t2"}
Pids == 1..MaxProcs
Gens == 1..MaxPrompts

\* Tools by the way the Orchestrator treats them (tool_definitions.py):
\* attempt_completion returns the completion sentinel, execute_command and
\* write_to_file are on the approval list, read_file and write_to_file fill the
\* file cache, list_repomap stores the repomap snapshot.
ToolNames ==
  {"attempt_completion", "execute_command", "write_to_file", "read_file", "list_repomap"}
require_approval_list == {"execute_command", "write_to_file"}

COMPLETION_SIGNALLED == "COMPLETION_SIGNALLED"
TOOL_DENIED == "The user denied this operation."
TOOL_ERROR == "[Tool Error] ..."
TOOL_OK == "Tool executed successfully."

VARIABLES
  \* --- Orchestrator (class Emigo) ---
  active,        \* active_interaction_session (NoSession = None)
  history,       \* sessions[s].history as a sequence of messages
  chat_files,    \* sessions[s].chat_files is non-empty
  caches,        \* sessions[s].caches: [contents, repomap] non-empty flags
  pending,       \* keys of pending_tool_requests
  queue,         \* worker_output_queue
  wproc,         \* llm_worker_process: pid of the Popen handle, 0 = None
  alive,         \* pids of the Worker processes that are running
  readers,       \* pids whose stdout reader thread is running
  pthread,       \* queue processor threads: state of each
  phandle,       \* worker_processor_thread: index of the thread, 0 = None
  lockStuck,     \* llm_worker_lock is held by a thread that waits for it
  rpc,           \* frontend RPC threads: position in the handler
  \* --- Worker process (llm_worker.py) ---
  stdin,         \* lines written to the running Worker's stdin, unread
  pipe,          \* lines each Worker wrote to stdout, not yet read
  worker,        \* the running Worker: pc, session, history, turn, request id
  \* --- bookkeeping of the run ---
  nspawn,        \* Worker processes spawned so far
  ngen,          \* prompts submitted so far
  log,           \* what has been observed: see LogInit
  \* --- one tool call or handler seen from inside (tools.py, session.py, utils.py) ---
  call,          \* the call under way: its name, its inputs, its position
  files,         \* the session directory on disk and the session's file cache
  emacs          \* what the frontend has been handed by the call

\* The variables of one tool call or handler seen from inside
scratch == <<call, files, emacs>>

vars == <<active, history, chat_files, caches, pending, queue, wproc, alive, readers,
          pthread, phandle, lockStuck, rpc, stdin, pipe, worker, nspawn, ngen, log,
          call, files, emacs>>

\* ------------------------------------------------------------------------
\* Messages
\* ------------------------------------------------------------------------
\* A message of a history: what append_history and the Worker put into the
\* dicts.  gen tells which prompt the message belongs to.
NoId == [gen |-> 0, turn |-> 0, index |-> 0]
ToolCallId(g, t, i) == [gen |-> g, turn |-> t, index |-> i]
UserMsg(g) ==
  [role |-> "user", gen |-> g, content |-> "prompt", tool_calls |-> <<>>,
   tool_call_id |-> NoId]
AssistantMsg(g, content, calls) ==
  [role |-> "assistant", gen |-> g, content |-> content, tool_calls |-> calls,
   tool_call_id |-> NoId]
ToolMsg(g, id, content) ==
  [role |-> "tool", gen |-> g, content |-> content, tool_calls |-> <<>>,
   tool_call_id |-> id]

\* Contents of an assistant message: text, None (tool calls only), the empty
\* string, or the error text recorded when the LLM stream fails
TEXT == "text"
NONE == "None"
LLM_ERROR_TEXT == "[LLM Error]"

\* request_id of the k-th request of its kind in turn t of prompt g
Rid(g, t, kind, k) == [gen |-> g, turn |-> t, kind |-> kind, index |-> k]
NoRid == [gen |-> 0, turn |-> 0, kind |-> "none", index |-> 0]

Sentinel == [type |-> "None"]

\* The Worker between two interactions.  hist is interaction_history, rid the
\* request the Worker waits for, sent the tool requests of the interaction;
\* text, frags, err are full_response_text (non-empty), tool_call_fragments and
\* llm_error_occurred of the turn, calls and results are tool_calls_extracted
\* and tool_results_for_history, k is the tool call being executed, out the
\* tool markers streamed in the interaction
IdleWorker == [pc |-> "main", sess |-> NoSession, gen |-> 0, hist |-> <<>>,
               turn |-> 0, rid |-> NoRid, sent |-> {},
               text |-> FALSE, frags |-> <<>>, err |-> FALSE,
               calls |-> <<>>, results |-> <<>>, k |-> 0, out |-> <<>>]

IdleRpc == [pc |-> "idle", op |-> "none", sess |-> NoSession, target |-> NoSession, pid |-> 0]

IdleThread == [st |-> "idle"]
NoThread == [st |-> "unborn"]
DeadThread == [st |-> "dead"]

LogInit == [stale |-> {},            \* types of a killed Worker's lines dispatched after its cancel returned
            cancelled |-> {},        \* pids whose cancel-and-restart has returned
            owners |-> {},           \* interactions (gen) that own the Worker
            delivered |-> {},        \* request ids whose tool_result reached the requester
            dup |-> FALSE,           \* a tool_result reached the requester twice
            completed |-> {},        \* prompts whose completion tool_result has been written
            deltas |-> 0,            \* deltas the LLM has streamed during the run
            failed |-> {}]           \* prompts ended with llm_error or critical_error

\* No tool call is looked at from inside
NoCall == [op |-> "none"]
NoFiles == [op |-> "none"]

\* The Orchestrator after Emigo.__init__: one Worker, its reader thread, one
\* queue processor thread, no session
Constructed ==
  /\ active = NoSession
  /\ history = [s \in Sessions |-> <<>>]
  /\ chat_files = [s \in Sessions |-> FALSE]
  /\ caches = [s \in Sessions |-> [contents |-> FALSE, repomap |-> FALSE]]
  /\ pending = {}
  /\ queue = <<>>
  /\ wproc = 1
  /\ alive = {1}
  /\ readers = {1}
  /\ pthread = [i \in Pids |-> IF i = 1 THEN IdleThread ELSE NoThread]
  /\ phandle = 1
  /\ lockStuck = FALSE
  /\ rpc = [t \in RpcThreads |-> IdleRpc]
  /\ stdin = <<>>
  /\ pipe = [p \in Pids |-> <<>>]
  /\ worker = IdleWorker
  /\ nspawn = 1
  /\ ngen = 0
  /\ log = LogInit

Init ==
  /\ Constructed
  /\ call = NoCall
  /\ files = NoFiles
  /\ emacs = <<>>

\* ------------------------------------------------------------------------
\* Session (session.py)
\* ------------------------------------------------------------------------
\* Session.invalidate_cache(None): mtimes, contents and last_repomap cleared
invalidate_cache(c) == [contents |-> FALSE, repomap |-> FALSE]

\* Session.get_environment_details_string: the cache of every chat file is
\* refreshed while the text is rendered
RefreshedCaches(s) == [caches[s] EXCEPT !.contents = @ \/ chat_files[s]]

\* Session.set_history: the messages that carry role and content replace the
\* history
set_history(h) ==
  SelectSeq(h, LAMBDA m : "role" \in DOMAIN m /\ "content" \in DOMAIN m)

Last(seq) == seq[Len(seq)]
Front(seq) == SubSeq(seq, 1, Len(seq) - 1)

\* (mutant) the history is left as it is
PopCancelledPrompt_Kept(h) == h

\* cancel_llm_interaction: the trailing message is popped when its role is user
PopCancelledPrompt(h) ==
  IF h # <<>> /\ Last(h).role = "user" THEN Front(h) ELSE h

\* ------------------------------------------------------------------------
\* Worker process supervision (emigo.py)
\* ------------------------------------------------------------------------
\* llm_worker_process and llm_worker_process.poll() is None
WorkerRunning == wproc # 0 /\ wproc \in alive

\* worker_processor_thread is set and is_alive()
ProcessorAlive == phandle # 0 /\ pthread[phandle].st \in {"idle", "tool", "stuck"}

\* _send_to_worker takes llm_worker_lock and, when the process is not running,
\* calls _start_llm_worker, which takes the same non-reentrant lock: the caller
\* never returns and the lock stays held.  "blocked": the lock is already held
\* for ever by another thread.
SendOutcome ==
  IF lockStuck THEN "blocked"
  ELSE IF ~WorkerRunning THEN "deadlock"
  ELSE "sent"

\* ------------------------------------------------------------------------
\* Frontend RPC threads: emigo_send, emigo_send_revised_history,
\* cancel_llm_interaction
\* ------------------------------------------------------------------------
\* The test `if self.active_interaction_session:` of emigo_send and
\* emigo_send_revised_history; no lock is held, the assignment is a later step.
SendCheck(t, s, op) ==
  /\ rpc[t].pc = "idle"
  /\ ngen < MaxPrompts
  /\ rpc' = [rpc EXCEPT ![t] = [IdleRpc EXCEPT !.op = op, !.sess = s,
                                 !.pc = IF active # NoSession THEN "confirm" ELSE "set"]]
  /\ UNCHANGED <<active, history, chat_files, caches, pending, queue, wproc, alive,
                 readers, pthread, phandle, lockStuck, stdin, pipe, worker, nspawn,
                 ngen, log>>
  /\ UNCHANGED scratch

\* The lines of Worker p at the tail of the queue: those its reader thread may
\* not have moved yet when the process dies
RECURSIVE TailOf(_, _)
TailOf(q, p) ==
  IF q # <<>> /\ Last(q).type # "None" /\ Last(q).pid = p
  THEN TailOf(Front(q), p) + 1 ELSE 0

\* Worker wproc dies with the last k lines it wrote still unread in its stdout
Unread(k) == SubSeq(queue, Len(queue) - k + 1, Len(queue))
Read(k) == SubSeq(queue, 1, Len(queue) - k)

\* _stop_llm_worker as called by cancel_llm_interaction: the process is
\* terminated and the sentinel is queued for the processor thread
StopWorker(t, target, op, s) ==
  IF lockStuck
  THEN /\ rpc' = [rpc EXCEPT ![t].pc = "stuck"]
       /\ UNCHANGED <<alive, queue, pipe, stdin, worker, log>>
  ELSE /\ alive' = alive \ {wproc}
       /\ log' = [log EXCEPT !.owners = IF WorkerRunning THEN {} ELSE @]
       /\ \E k \in 0..(IF WorkerRunning THEN TailOf(queue, wproc) ELSE 0) :
            /\ queue' = IF ProcessorAlive THEN Append(Read(k), Sentinel) ELSE Read(k)
            /\ pipe' = IF k > 0 THEN [pipe EXCEPT ![wproc] = Unread(k)] ELSE pipe
       /\ stdin' = IF WorkerRunning THEN <<>> ELSE stdin
       /\ worker' = IF WorkerRunning THEN IdleWorker ELSE worker
       /\ rpc' = [rpc EXCEPT ![t] = [pc |-> "cstop", op |-> op, sess |-> s,
                                     target |-> target, pid |-> wproc]]

\* yes-or-no-p answered no: the prompt is dropped
SendDeclined(t) ==
  /\ rpc[t].pc = "confirm"
  /\ rpc' = [rpc EXCEPT ![t] = IdleRpc]
  /\ UNCHANGED <<active, history, chat_files, caches, pending, queue, wproc, alive,
                 readers, pthread, phandle, lockStuck, stdin, pipe, worker, nspawn,
                 ngen, log>>
  /\ UNCHANGED scratch

\* yes-or-no-p answered yes: cancel_llm_interaction(self.active_interaction_session)
SendConfirmed(t) ==
  /\ rpc[t].pc = "confirm"
  /\ nspawn < MaxProcs
  /\ StopWorker(t, active, rpc[t].op, rpc[t].sess)
  /\ UNCHANGED <<active, history, chat_files, caches, pending, wproc, readers, pthread,
                 phandle, lockStuck, nspawn, ngen>>
  /\ UNCHANGED scratch

\* cancel_llm_interaction(s) from the frontend: only for the active session
CancelStart(t, s) ==
  /\ rpc[t].pc = "idle"
  /\ active = s
  /\ nspawn < MaxProcs
  /\ StopWorker(t, s, "cancel", s)
  /\ UNCHANGED <<active, history, chat_files, caches, pending, wproc, readers, pthread,
                 phandle, lockStuck, nspawn, ngen>>
  /\ UNCHANGED scratch

\* join(timeout=2) of _stop_llm_worker returns: the processor thread has
\* exited, or it is still inside a synchronous frontend call (tool approval)
JoinTimesOut ==
  /\ ProcessorAlive
  /\ \/ pthread[phandle].st = "stuck"
     \/ /\ pthread[phandle].st = "tool"
        /\ pthread[phandle].msg.tool \in require_approval_list

JoinReturns == ~ProcessorAlive \/ JoinTimesOut

FreeThreads == {i \in Pids : pthread[i].st = "unborn"}
NewThread == CHOOSE i \in FreeThreads : \A j \in FreeThreads : i <= j

\* The rest of cancel_llm_interaction after _stop_llm_worker returned: queue
\* drain, _start_llm_worker, new processor thread, pop of the cancelled prompt,
\* active session and pending requests cleared, cache invalidated
CancelFinish(t) ==
  LET target == rpc[t].target
      spawn == ~WorkerRunning
      pid == nspawn + 1
  IN
  /\ rpc[t].pc = "cstop"
  /\ JoinReturns
  /\ ~lockStuck
  /\ FreeThreads # {}
  /\ queue' = <<>>
  /\ IF spawn
     THEN /\ nspawn < MaxProcs
          /\ wproc' = pid
          /\ alive' = alive \cup {pid}
          /\ readers' = readers \cup {pid}
          /\ nspawn' = pid
          /\ stdin' = <<>>
          /\ worker' = IdleWorker
     ELSE UNCHANGED <<wproc, alive, readers, nspawn, stdin, worker>>
  /\ pthread' = [pthread EXCEPT ![NewThread] = IdleThread]
  /\ phandle' = NewThread
  /\ history' = IF target \in Sessions
                THEN [history EXCEPT ![target] = PopCancelledPrompt(@)]
                ELSE history
  /\ active' = NoSession
  /\ pending' = {}
  /\ caches' = IF target \in Sessions
               THEN [caches EXCEPT ![target] = invalidate_cache(@)]
               ELSE caches
  /\ rpc' = [rpc EXCEPT ![t] = IF rpc[t].op = "cancel" THEN IdleRpc
                               ELSE [IdleRpc EXCEPT !.op = rpc[t].op,
                                                    !.sess = rpc[t].sess, !.pc = "set"]]
  /\ log' = [log EXCEPT !.cancelled = @ \cup {rpc[t].pid}]
  /\ UNCHANGED <<chat_files, lockStuck, pipe, ngen>>
  /\ UNCHANGED scratch

\* cancel_llm_interaction reaches _start_llm_worker while llm_worker_lock is
\* held for ever: the queue has been drained and the thread waits for the lock
CancelBlocked(t) ==
  /\ rpc[t].pc = "cstop"
  /\ JoinReturns
  /\ lockStuck
  /\ queue' = <<>>
  /\ phandle' = IF JoinTimesOut THEN 0 ELSE phandle
  /\ rpc' = [rpc EXCEPT ![t].pc = "stuck"]
  /\ UNCHANGED <<active, history, chat_files, caches, pending, wproc, alive, readers,
                 pthread, lockStuck, stdin, pipe, worker, nspawn, ngen, log>>
  /\ UNCHANGED scratch

\* The histories the frontend may send as revised history for prompt g
RevisedHistories(g) == {<<UserMsg(g)>>, <<UserMsg(g), AssistantMsg(g, TEXT, <<>>)>>}

InteractionRequest(s, g, h, empty) ==
  [type |-> "interaction_request", sess |-> s, gen |-> g, hist |-> h, empty |-> empty]

\* emigo_send / emigo_send_revised_history from `self.active_interaction_session
\* = session_path` to _send_to_worker.  h is the session history after the
\* prompt was appended (emigo_send) or the history was replaced (revised).
Submit(t, s, g, h, empty) ==
  /\ active' = s
  /\ history' = [history EXCEPT ![s] = h]
  /\ caches' = [caches EXCEPT ![s] = RefreshedCaches(s)]
  /\ ngen' = g
  /\ CASE SendOutcome = "sent" ->
            /\ stdin' = Append(stdin, InteractionRequest(s, g, h, empty))
            /\ rpc' = [rpc EXCEPT ![t] = IdleRpc]
            /\ log' = [log EXCEPT !.owners = @ \cup {g}]
            /\ UNCHANGED lockStuck
       [] SendOutcome = "deadlock" ->
            /\ lockStuck' = TRUE
            /\ rpc' = [rpc EXCEPT ![t].pc = "stuck"]
            /\ UNCHANGED <<stdin, log>>
       [] SendOutcome = "blocked" ->
            /\ rpc' = [rpc EXCEPT ![t].pc = "stuck"]
            /\ UNCHANGED <<stdin, lockStuck, log>>
  /\ UNCHANGED <<chat_files, pending, queue, wproc, alive, readers, pthread, phandle,
                 pipe, worker, nspawn>>

SendPrompt(t) ==
  /\ rpc[t].pc = "set"
  /\ rpc[t].op = "send"
  /\ \E empty \in BOOLEAN :
       Submit(t, rpc[t].sess, ngen + 1,
              Append(history[rpc[t].sess], UserMsg(ngen + 1)), empty)
  /\ UNCHANGED scratch

\* emigo_send when os.path.isdir(session_path) fails in
\* _get_or_create_session: active_interaction_session has been assigned and
\* the method returns
SendInvalidSession(t) ==
  /\ rpc[t].pc = "set"
  /\ rpc[t].op = "send"
  /\ active' = rpc[t].sess
  /\ ngen' = ngen + 1
  /\ rpc' = [rpc EXCEPT ![t] = IdleRpc]
  /\ UNCHANGED <<history, chat_files, caches, pending, queue, wproc, alive, readers,
                 pthread, phandle, lockStuck, stdin, pipe, worker, nspawn, log>>
  /\ UNCHANGED scratch

\* emigo_send when get_emacs_vars fails or emigo-model is not set: the prompt
\* has been appended to the history and the environment details have been
\* built; active_interaction_session is unset and the method returns
SendNoModel(t) ==
  /\ rpc[t].pc = "set"
  /\ rpc[t].op = "send"
  /\ active' = NoSession
  /\ history' = [history EXCEPT ![rpc[t].sess] = Append(@, UserMsg(ngen + 1))]
  /\ caches' = [caches EXCEPT ![rpc[t].sess] = RefreshedCaches(rpc[t].sess)]
  /\ ngen' = ngen + 1
  /\ rpc' = [rpc EXCEPT ![t] = IdleRpc]
  /\ UNCHANGED <<chat_files, pending, queue, wproc, alive, readers, pthread, phandle,
                 lockStuck, stdin, pipe, worker, nspawn, log>>
  /\ UNCHANGED scratch

SendRevised(t) ==
  /\ rpc[t].pc = "set"
  /\ rpc[t].op = "revised"
  /\ \E h \in RevisedHistories(ngen + 1) :
       Submit(t, rpc[t].sess, ngen + 1, set_history(h), FALSE)
  /\ UNCHANGED scratch

\* ------------------------------------------------------------------------
\* stdout reader threads (_read_worker_stdout)
\* ------------------------------------------------------------------------
\* A line the dead Worker p left in its stdout is moved to the queue
ReaderRead(p) ==
  /\ p \in readers
  /\ p \notin alive
  /\ pipe[p] # <<>>
  /\ queue' = Append(queue, Head(pipe[p]))
  /\ pipe' = [pipe EXCEPT ![p] = Tail(@)]
  /\ UNCHANGED <<active, history, chat_files, caches, pending, wproc, alive, readers,
                 pthread, phandle, lockStuck, rpc, stdin, worker, nspawn, ngen, log>>
  /\ UNCHANGED scratch

\* EOF on the dead Worker's stdout: the sentinel is queued and the thread ends
ReaderEOF(p) ==
  /\ p \in readers
  /\ p \notin alive
  /\ pipe[p] = <<>>
  /\ queue' = Append(queue, Sentinel)
  /\ readers' = readers \ {p}
  /\ UNCHANGED <<active, history, chat_files, caches, pending, wproc, alive, pipe,
                 pthread, phandle, lockStuck, rpc, stdin, worker, nspawn, ngen, log>>
  /\ UNCHANGED scratch

\* ------------------------------------------------------------------------
\* Lines the Worker writes to stdout (send_message)
\* ------------------------------------------------------------------------
Stream(p, s, g, role, id) ==
  [type |-> "stream", pid |-> p, sess |-> s, gen |-> g, role |-> role, tool_id |-> id]
ToolRequest(p, s, g, rid, tool) ==
  [type |-> "tool_request", pid |-> p, sess |-> s, gen |-> g, rid |-> rid, tool |-> tool]
EnvRequest(p, s, g, rid) ==
  [type |-> "get_environment_details_request", pid |-> p, sess |-> s, gen |-> g, rid |-> rid]
Finished(p, s, g, status, hasHist, h) ==
  [type |-> "finished", pid |-> p, sess |-> s, gen |-> g, status |-> status,
   hasHist |-> hasHist, hist |-> h]
Error(p, s, g) ==
  [type |-> "error", pid |-> p, sess |-> s, gen |-> g]

\* ------------------------------------------------------------------------
\* Queue processor threads (_process_worker_queue)
\* ------------------------------------------------------------------------
Dispatching(i, type) ==
  /\ pthread[i].st = "idle"
  /\ queue # <<>>
  /\ Head(queue).type = type

\* A line of a Worker whose cancel-and-restart has returned is dispatched
Observed(m) ==
  IF m.pid \in log.cancelled THEN [log EXCEPT !.stale = @ \cup {m.type}] ELSE log

\* `if line is None: break`
ProcSentinel(i) ==
  /\ Dispatching(i, "None")
  /\ queue' = Tail(queue)
  /\ pthread' = [pthread EXCEPT ![i] = DeadThread]
  /\ UNCHANGED <<active, history, chat_files, caches, pending, wproc, alive, readers,
                 phandle, lockStuck, rpc, stdin, pipe, worker, nspawn, ngen, log>>
  /\ UNCHANGED scratch

\* msg_type == "stream": the chunk is forwarded to the frontend
ProcStream(i) ==
  /\ Dispatching(i, "stream")
  /\ queue' = Tail(queue)
  /\ log' = Observed(Head(queue))
  /\ UNCHANGED <<active, history, chat_files, caches, pending, wproc, alive, readers,
                 pthread, phandle, lockStuck, rpc, stdin, pipe, worker, nspawn, ngen>>
  /\ UNCHANGED scratch

\* What request-tool-approval-sync can give for a tool of the approval list:
\* t, nil, or an exception of the synchronous call; other tools are not asked
Approvals(tool) ==
  IF tool \in require_approval_list THEN {"approved", "denied", "failed"}
  ELSE {"unasked"}

\* (mutant) the tool function is called whatever the frontend answered
Invokes_Always(approval) == TRUE

\* _handle_tool_request_from_worker reaches `tool_function(session, parameters)`:
\* it has returned before on a denial or on a failed approval call
Invokes(approval) == approval \in {"unasked", "approved"}

\* Results a tool function can return to _handle_tool_request_from_worker
ToolResults(tool) ==
  CASE tool = "attempt_completion" -> {COMPLETION_SIGNALLED, TOOL_ERROR}
    [] OTHER -> {TOOL_OK, TOOL_ERROR}

\* What _handle_tool_request_from_worker returns: the denial sentinel, the
\* formatted error of the approval call, or the result of the tool function
HandlerResults(tool, approval) ==
  CASE approval = "denied" -> {TOOL_DENIED}
    [] approval = "failed" -> {TOOL_ERROR}
    [] OTHER -> ToolResults(tool)

\* (mutant) active_interaction_session is left to the finished handler
EarlyClear_Never(tool, result, s) == FALSE

\* `tool_name == TOOL_ATTEMPT_COMPLETION and tool_result == "COMPLETION_SIGNALLED"`
\* and `self.active_interaction_session == session_path`
EarlyClear(tool, result, s) ==
  tool = "attempt_completion" /\ result = COMPLETION_SIGNALLED /\ active = s

\* msg_type == "tool_request" up to the return of
\* _handle_tool_request_from_worker: the request is recorded, the approval is
\* asked, the tool function runs, the active session is cleared on completion
ProcToolRequest(i) ==
  /\ Dispatching(i, "tool_request")
  /\ LET m == Head(queue) IN
     \E approval \in Approvals(m.tool) :
     \E r \in HandlerResults(m.tool, approval) :
       LET invoked == Invokes(approval)
           done == invoked /\ r = TOOL_OK
       IN
       /\ queue' = Tail(queue)
       /\ pending' = pending \cup {m.rid}
       /\ pthread' = [pthread EXCEPT ![i] = [st |-> "tool", msg |-> m, result |-> r,
                                             approval |-> approval, invoked |-> invoked]]
       /\ chat_files' = IF m.tool = "read_file" /\ done
                        THEN [chat_files EXCEPT ![m.sess] = TRUE] ELSE chat_files
       /\ caches' = CASE m.tool \in {"read_file", "write_to_file"} /\ done ->
                           [caches EXCEPT ![m.sess].contents = TRUE]
                      [] m.tool = "list_repomap" /\ invoked ->
                           [caches EXCEPT ![m.sess].repomap = (r = TOOL_OK)]
                      [] OTHER -> caches
       /\ active' = IF EarlyClear(m.tool, r, m.sess) THEN NoSession ELSE active
       /\ log' = [Observed(m) EXCEPT !.owners =
                    IF m.tool = "attempt_completion" /\ r = COMPLETION_SIGNALLED
                    THEN @ \ {m.gen} ELSE @]
  /\ UNCHANGED <<history, wproc, alive, readers, phandle, lockStuck, rpc, stdin, pipe,
                 worker, nspawn, ngen>>
  /\ UNCHANGED scratch

ToolResult(rid, result) == [type |-> "tool_result", rid |-> rid, result |-> result]
EnvResponse(rid) == [type |-> "get_environment_details_response", rid |-> rid]

\* (mutant) the tool_result names the session instead of the request
ResultRequestId_Session(m) == Rid(m.gen, 0, "session", 0)

\* The request id the Orchestrator puts into the tool_result
ResultRequestId(m) == m.rid

\* _send_to_worker({"type": "tool_result", ...}) and the removal of the pending
\* entry that follows it
ProcToolSend(i) ==
  /\ pthread[i].st = "tool"
  /\ LET m == pthread[i].msg
         rid == ResultRequestId(m)
     IN
     CASE SendOutcome = "sent" ->
            /\ stdin' = Append(stdin, ToolResult(rid, pthread[i].result))
            /\ pending' = pending \ {m.rid}
            /\ pthread' = [pthread EXCEPT ![i] = IdleThread]
            /\ log' = [log EXCEPT
                         !.delivered = IF m.pid = wproc THEN @ \cup {rid} ELSE @,
                         !.dup = @ \/ (m.pid = wproc /\ rid \in log.delivered),
                         !.completed = IF pthread[i].result = COMPLETION_SIGNALLED
                                       THEN @ \cup {m.gen} ELSE @]
            /\ UNCHANGED lockStuck
       [] SendOutcome = "deadlock" ->
            /\ lockStuck' = TRUE
            /\ pthread' = [pthread EXCEPT ![i].st = "stuck"]
            /\ UNCHANGED <<stdin, pending, log>>
       [] SendOutcome = "blocked" ->
            /\ pthread' = [pthread EXCEPT ![i].st = "stuck"]
            /\ UNCHANGED <<stdin, pending, log, lockStuck>>
  /\ UNCHANGED <<active, history, chat_files, caches, queue, wproc, alive, readers,
                 phandle, rpc, pipe, worker, nspawn, ngen>>
  /\ UNCHANGED scratch

\* `if status in ["success", "max_turns_reached"]` and
\* `if final_history and isinstance(final_history, list)`
ReplacesHistory(m) ==
  m.status \in {"success", "max_turns_reached"} /\ m.hasHist /\ m.hist # <<>>

\* msg_type == "finished"
ProcFinished(i) ==
  /\ Dispatching(i, "finished")
  /\ LET m == Head(queue) IN
       /\ queue' = Tail(queue)
       /\ active' = IF active = m.sess THEN NoSession ELSE active
       /\ history' = IF ReplacesHistory(m)
                     THEN [history EXCEPT ![m.sess] = set_history(m.hist)]
                     ELSE history
       /\ log' = [Observed(m) EXCEPT !.owners = @ \ {m.gen}]
  /\ UNCHANGED <<chat_files, caches, pending, wproc, alive, readers, pthread, phandle,
                 lockStuck, rpc, stdin, pipe, worker, nspawn, ngen>>
  /\ UNCHANGED scratch

\* msg_type == "error"
ProcError(i) ==
  /\ Dispatching(i, "error")
  /\ LET m == Head(queue) IN
       /\ queue' = Tail(queue)
       /\ active' = IF active = m.sess THEN NoSession ELSE active
       /\ log' = [Observed(m) EXCEPT !.owners = @ \ {m.gen}]
  /\ UNCHANGED <<history, chat_files, caches, pending, wproc, alive, readers, pthread,
                 phandle, lockStuck, rpc, stdin, pipe, worker, nspawn, ngen>>
  /\ UNCHANGED scratch

\* msg_type == "get_environment_details_request"
ProcEnvRequest(i) ==
  /\ Dispatching(i, "get_environment_details_request")
  /\ LET m == Head(queue) IN
       /\ queue' = Tail(queue)
       /\ caches' = [caches EXCEPT ![m.sess] = RefreshedCaches(m.sess)]
       /\ log' = Observed(m)
       /\ CASE SendOutcome = "sent" ->
                 /\ stdin' = Append(stdin, EnvResponse(m.rid))
                 /\ UNCHANGED <<pthread, lockStuck>>
            [] SendOutcome = "deadlock" ->
                 /\ lockStuck' = TRUE
                 /\ pthread' = [pthread EXCEPT ![i] = [st |-> "stuck"]]
                 /\ UNCHANGED stdin
            [] SendOutcome = "blocked" ->
                 /\ pthread' = [pthread EXCEPT ![i] = [st |-> "stuck"]]
                 /\ UNCHANGED <<stdin, lockStuck>>
  /\ UNCHANGED <<active, history, chat_files, pending, wproc, alive, readers, phandle,
                 rpc, pipe, worker, nspawn, ngen>>
  /\ UNCHANGED scratch

\* ------------------------------------------------------------------------
\* Worker process (llm_worker.py), one step per line read or LLM call
\* ------------------------------------------------------------------------
\* While the process runs, its reader thread is the only consumer of its stdout
\* and moves every line to worker_output_queue; the move is taken together
\* with the write (what the reader had not yet moved when the process died is
\* decided in Unread)
Write(msgs) == queue' = queue \o msgs

\* Status of the finished message at the end of handle_interaction_request
FinishStatus(llm_error_occurred, turn) ==
  IF llm_error_occurred THEN "llm_error"
  ELSE IF turn >= max_turns - 1 THEN "max_turns_reached"
  ELSE "success"

\* (mutant) the final history is sent whatever the status
IncludesFinalHistory_Always(status) == TRUE

\* `if status != "llm_error": finish_data["final_history"] = interaction_history`
IncludesFinalHistory(status) == status # "llm_error"

FinishedLine(w, status, h) ==
  Finished(wproc, w.sess, w.gen, status, IncludesFinalHistory(status),
           IF IncludesFinalHistory(status) THEN h ELSE <<>>)

\* main(): a line is read; an interaction_request starts
\* handle_interaction_request, which refuses an empty prompt with an error
\* line; any other line is dropped
WorkerMain ==
  /\ WorkerRunning
  /\ worker.pc = "main"
  /\ stdin # <<>>
  /\ LET m == Head(stdin) IN
       /\ stdin' = Tail(stdin)
       /\ IF m.type = "interaction_request"
          THEN IF m.empty
               THEN /\ Write(<<Error(wproc, m.sess, m.gen)>>)
                    /\ UNCHANGED worker
               ELSE /\ Write(<<Stream(wproc, m.sess, m.gen, "llm", NoId)>>)
                    /\ worker' = [IdleWorker EXCEPT !.pc = "turn", !.sess = m.sess,
                                                    !.gen = m.gen, !.hist = m.hist]
          ELSE UNCHANGED <<queue, worker>>
  /\ UNCHANGED <<active, history, chat_files, caches, pending, pipe, wproc, alive,
                 readers, pthread, phandle, lockStuck, rpc, nspawn, ngen, log>>
  /\ UNCHANGED scratch

\* A turn whose LLM stream carries text and no tool call: the assistant
\* message is recorded and the interaction ends
WorkerTurnText ==
  /\ WorkerRunning
  /\ worker.pc = "turn"
  /\ LET h == Append(worker.hist, AssistantMsg(worker.gen, TEXT, <<>>)) IN
       /\ Write(<<Stream(wproc, worker.sess, worker.gen, "llm", NoId),
                  FinishedLine(worker, FinishStatus(FALSE, worker.turn), h)>>)
       /\ worker' = IdleWorker
  /\ UNCHANGED <<active, history, chat_files, caches, pending, pipe, wproc, alive,
                 readers, pthread, phandle, lockStuck, rpc, stdin, nspawn, ngen, log>>
  /\ UNCHANGED scratch

\* A turn whose LLM stream carries one tool call: start marker, assistant
\* message with the tool call, tool_request, then the blocking wait
WorkerTurnTool ==
  /\ WorkerRunning
  /\ worker.pc = "turn"
  /\ Cardinality(worker.sent) < MaxToolTurns
  /\ \E tool \in ToolNames :
       LET rid == Rid(worker.gen, worker.turn, "tool", 1) IN
       /\ Write(<<Stream(wproc, worker.sess, worker.gen, "tool_json",
                         ToolCallId(worker.gen, worker.turn, 0)),
                  ToolRequest(wproc, worker.sess, worker.gen, rid, tool)>>)
       /\ worker' = [worker EXCEPT !.pc = "waittool", !.rid = rid,
                                   !.sent = @ \cup {rid},
                                   !.hist = Append(@, AssistantMsg(worker.gen, NONE,
                                       <<ToolCallId(worker.gen, worker.turn, 0)>>))]
  /\ UNCHANGED <<active, history, chat_files, caches, pending, pipe, wproc, alive,
                 readers, pthread, phandle, lockStuck, rpc, stdin, nspawn, ngen, log>>
  /\ UNCHANGED scratch

\* A turn whose LLM stream fails: error chunk, local assistant message,
\* finished with status llm_error
WorkerTurnError ==
  /\ WorkerRunning
  /\ worker.pc = "turn"
  /\ LET h == Append(worker.hist, AssistantMsg(worker.gen, LLM_ERROR_TEXT, <<>>)) IN
       /\ Write(<<Stream(wproc, worker.sess, worker.gen, "error", NoId),
                  FinishedLine(worker, FinishStatus(TRUE, worker.turn), h)>>)
       /\ worker' = IdleWorker
  /\ UNCHANGED <<active, history, chat_files, caches, pending, pipe, wproc, alive,
                 readers, pthread, phandle, lockStuck, rpc, stdin, nspawn, ngen, log>>
  /\ UNCHANGED scratch

\* request_tool_execution: `response.get("type") == "tool_result" and
\* response.get("request_id") == request_id`
MatchesToolResult(m, rid) == m.type = "tool_result" /\ m.rid = rid

\* request_environment_details: the same test for the environment response
MatchesEnvResponse(m, rid) ==
  m.type = "get_environment_details_response" /\ m.rid = rid

\* (mutant) a tool error does not end the interaction
EndsInteraction_NoError(result) == result \in {COMPLETION_SIGNALLED, TOOL_DENIED}

\* Results after which the Worker ends the interaction
EndsInteraction(result) ==
  result \in {COMPLETION_SIGNALLED, TOOL_DENIED, TOOL_ERROR}

\* The blocking wait of request_tool_execution reads one line
WorkerToolResult ==
  /\ WorkerRunning
  /\ worker.pc = "waittool"
  /\ stdin # <<>>
  /\ LET m == Head(stdin)
         h == Append(worker.hist, ToolMsg(worker.gen, ToolCallId(worker.gen, worker.turn, 0),
                                          m.result))
     IN
       /\ stdin' = Tail(stdin)
       /\ IF MatchesToolResult(m, worker.rid)
          THEN IF EndsInteraction(m.result)
               THEN /\ Write(<<Stream(wproc, worker.sess, worker.gen, "tool_json_end",
                                      ToolCallId(worker.gen, worker.turn, 0)),
                               FinishedLine(worker, FinishStatus(FALSE, worker.turn), h)>>)
                    /\ worker' = IdleWorker
               ELSE LET rid == Rid(worker.gen, worker.turn, "env", 0) IN
                    /\ Write(<<EnvRequest(wproc, worker.sess, worker.gen, rid)>>)
                    /\ worker' = [worker EXCEPT !.pc = "waitenv", !.rid = rid, !.hist = h]
          ELSE UNCHANGED <<queue, worker>>
  /\ UNCHANGED <<active, history, chat_files, caches, pending, pipe, wproc, alive,
                 readers, pthread, phandle, lockStuck, rpc, nspawn, ngen, log>>
  /\ UNCHANGED scratch

\* The blocking wait of request_environment_details reads one line; on the
\* response the next turn starts, or the turn limit ends the interaction
WorkerEnvResponse ==
  /\ WorkerRunning
  /\ worker.pc = "waitenv"
  /\ stdin # <<>>
  /\ LET m == Head(stdin) IN
       /\ stdin' = Tail(stdin)
       /\ IF MatchesEnvResponse(m, worker.rid)
          THEN IF worker.turn + 1 < max_turns
               THEN /\ worker' = [worker EXCEPT !.pc = "turn", !.turn = @ + 1,
                                                !.rid = NoRid]
                    /\ UNCHANGED queue
               ELSE /\ Write(<<Stream(wproc, worker.sess, worker.gen, "tool_json_end",
                                      ToolCallId(worker.gen, worker.turn, 0)),
                               FinishedLine(worker, FinishStatus(FALSE, worker.turn),
                                            worker.hist)>>)
                    /\ worker' = IdleWorker
          ELSE UNCHANGED <<queue, worker>>
  /\ UNCHANGED <<active, history, chat_files, caches, pending, pipe, wproc, alive,
                 readers, pthread, phandle, lockStuck, rpc, nspawn, ngen, log>>
  /\ UNCHANGED scratch

\* The session of the error line that main() prints for an exception of
\* handle_interaction_request
UnknownSession == "unknown"

\* main() and handle_interaction_request up to the construction of the client:
\* an empty prompt is refused with an error line; otherwise
\* LLMClient(..., extra_headers=extra_headers) is called, whose __init__ names
\* the parameter extra_header, so the call raises TypeError before the try
\* block of the interaction loop, and main() prints an error line for session
\* "unknown".  The other specifications follow WorkerMain past a client that
\* was constructed.
WorkerMainRaises ==
  /\ WorkerRunning
  /\ worker.pc = "main"
  /\ stdin # <<>>
  /\ LET m == Head(stdin) IN
       /\ stdin' = Tail(stdin)
       /\ IF m.type = "interaction_request"
          THEN Write(<<Error(wproc, IF m.empty THEN m.sess ELSE UnknownSession, m.gen)>>)
          ELSE UNCHANGED queue
  /\ UNCHANGED <<active, history, chat_files, caches, pending, pipe, wproc, alive,
                 readers, pthread, phandle, lockStuck, rpc, worker, nspawn, ngen, log>>
  /\ UNCHANGED scratch

\* The Worker process exits unexpectedly
WorkerCrash ==
  /\ WorkerRunning
  /\ alive' = alive \ {wproc}
  /\ worker' = IdleWorker
  /\ stdin' = <<>>
  /\ log' = [log EXCEPT !.owners = {}]
  /\ \E k \in 0..TailOf(queue, wproc) :
       /\ queue' = Read(k)
       /\ pipe' = [pipe EXCEPT ![wproc] = Unread(k)]
  /\ UNCHANGED <<active, history, chat_files, caches, pending, wproc, readers,
                 pthread, phandle, lockStuck, rpc, nspawn, ngen>>
  /\ UNCHANGED scratch

\* ------------------------------------------------------------------------
\* handle_interaction_request delta by delta (WorkerSpec)
\* ------------------------------------------------------------------------
\* Variables the Worker does not touch
orchestrator == <<active, history, chat_files, caches, pending, wproc, alive, readers,
                  pthread, phandle, lockStuck, rpc, pipe, nspawn, ngen>>

\* Pieces of an arguments string the LLM streams
ArgChunks == {"{}", "{", "1"}

\* `parameters = {}` for an empty string, else json.loads(stripped_args): what
\* the arguments string parses to
ParsedArguments(args) ==
  IF args = <<>> THEN "dict"
  ELSE IF args = <<"{}">> THEN "dict"
  ELSE IF \A n \in 1..Len(args) : args[n] = "1" THEN "int"
  ELSE "JSONDecodeError"

\* (mutant) every fragment is executed, whatever its arguments parse to
Extracted_All(frags) == frags

\* `if isinstance(parameters, dict): tool_calls_extracted.append(...)`
Extracted(frags) == SelectSeq(frags, LAMBDA f : ParsedArguments(f.args) = "dict")

\* reconstructed_tool_calls: every fragment, whatever its arguments
Reconstructed(frags) == [n \in 1..Len(frags) |-> frags[n].id]

\* A tool marker of the stream, as recorded in worker.out
Marker(role, id) == [role |-> role, tool_id |-> id]

\* delta.content: the text of the turn is streamed and accumulated
StreamText ==
  /\ WorkerRunning
  /\ worker.pc = "turn"
  /\ ~worker.text
  /\ log.deltas < MaxDeltas
  /\ Write(<<Stream(wproc, worker.sess, worker.gen, "llm", NoId)>>)
  /\ worker' = [worker EXCEPT !.text = TRUE]
  /\ log' = [log EXCEPT !.deltas = @ + 1]
  /\ UNCHANGED <<orchestrator, stdin>>
  /\ UNCHANGED scratch

\* delta.tool_calls with a new index, an id and a function name: the fragment
\* is created and the start marker is sent
StreamToolCall ==
  /\ WorkerRunning
  /\ worker.pc = "turn"
  /\ log.deltas < MaxDeltas
  /\ worker.turn < MaxToolTurns
  /\ \E tool \in ToolNames :
       LET id == ToolCallId(worker.gen, worker.turn, Len(worker.frags)) IN
       /\ Write(<<Stream(wproc, worker.sess, worker.gen, "tool_json", id)>>)
       /\ worker' = [worker EXCEPT
                       !.frags = Append(@, [id |-> id, name |-> tool, args |-> <<>>]),
                       !.out = Append(@, Marker("tool_json", id))]
  /\ log' = [log EXCEPT !.deltas = @ + 1]
  /\ UNCHANGED <<orchestrator, stdin>>
  /\ UNCHANGED scratch

\* delta.tool_calls with the index of a fragment and an arguments chunk: the
\* chunk is appended and streamed
StreamToolArgs ==
  /\ WorkerRunning
  /\ worker.pc = "turn"
  /\ log.deltas < MaxDeltas
  /\ \E n \in 1..Len(worker.frags), c \in ArgChunks :
       LET id == worker.frags[n].id IN
       /\ Write(<<Stream(wproc, worker.sess, worker.gen, "tool_json_args", id)>>)
       /\ worker' = [worker EXCEPT !.frags[n].args = Append(@, c),
                                   !.out = Append(@, Marker("tool_json_args", id))]
  /\ log' = [log EXCEPT !.deltas = @ + 1]
  /\ UNCHANGED <<orchestrator, stdin>>
  /\ UNCHANGED scratch

\* The LLM stream raises: error chunk, error text in the local history, and
\* the turn loop is left
StreamError ==
  /\ WorkerRunning
  /\ worker.pc = "turn"
  /\ Write(<<Stream(wproc, worker.sess, worker.gen, "error", NoId)>>)
  /\ worker' = [worker EXCEPT
                  !.err = TRUE, !.pc = "ended",
                  !.hist = Append(@, AssistantMsg(worker.gen, LLM_ERROR_TEXT, <<>>))]
  /\ UNCHANGED <<orchestrator, stdin, log>>
  /\ UNCHANGED scratch

\* The assistant message the turn adds to interaction_history
TurnMessage(w) ==
  IF w.text \/ w.frags # <<>>
  THEN <<AssistantMsg(w.gen, IF w.text THEN TEXT ELSE NONE, Reconstructed(w.frags))>>
  ELSE <<AssistantMsg(w.gen, "", <<>>)>>

\* End of the stream: the tool calls are extracted from the fragments and the
\* assistant message is recorded; without a parsed tool call the loop is left
ExtractToolCalls ==
  /\ WorkerRunning
  /\ worker.pc = "turn"
  /\ worker' = [worker EXCEPT
                  !.calls = Extracted(worker.frags),
                  !.results = <<>>,
                  !.k = 1,
                  !.hist = @ \o TurnMessage(worker),
                  !.pc = IF Extracted(worker.frags) # <<>> THEN "exec" ELSE "ended"]
  /\ UNCHANGED <<orchestrator, stdin, queue, log>>
  /\ UNCHANGED scratch

\* request_tool_execution: the tool_request of the next extracted call
RequestTool ==
  /\ WorkerRunning
  /\ worker.pc = "exec"
  /\ LET rid == Rid(worker.gen, worker.turn, "tool", worker.k) IN
       /\ Write(<<ToolRequest(wproc, worker.sess, worker.gen, rid,
                              worker.calls[worker.k].name)>>)
       /\ worker' = [worker EXCEPT !.pc = "waittool", !.rid = rid, !.sent = @ \cup {rid}]
  /\ UNCHANGED <<orchestrator, stdin, log>>
  /\ UNCHANGED scratch

\* The blocking wait of request_tool_execution reads one line.  On the result:
\* the tool message is kept; a completion, denial or tool error ends the loop
\* with the results so far added to the history; after the last call the
\* results are added and the environment details are requested
ReadToolResult ==
  /\ WorkerRunning
  /\ worker.pc = "waittool"
  /\ stdin # <<>>
  /\ LET m == Head(stdin)
         results == Append(worker.results,
                           ToolMsg(worker.gen, worker.calls[worker.k].id, m.result))
     IN
       /\ stdin' = Tail(stdin)
       /\ IF ~MatchesToolResult(m, worker.rid)
          THEN UNCHANGED <<queue, worker>>
          ELSE IF EndsInteraction(m.result)
          THEN /\ worker' = [worker EXCEPT !.pc = "ended", !.results = results,
                                           !.hist = @ \o results]
               /\ UNCHANGED queue
          ELSE IF worker.k < Len(worker.calls)
          THEN /\ worker' = [worker EXCEPT !.pc = "exec", !.results = results,
                                           !.k = @ + 1]
               /\ UNCHANGED queue
          ELSE LET rid == Rid(worker.gen, worker.turn, "env", 0) IN
               /\ Write(<<EnvRequest(wproc, worker.sess, worker.gen, rid)>>)
               /\ worker' = [worker EXCEPT !.pc = "waitenv", !.rid = rid,
                                           !.results = results, !.hist = @ \o results]
  /\ UNCHANGED <<orchestrator, log>>
  /\ UNCHANGED scratch

\* The blocking wait of request_environment_details reads one line.  On the
\* response the next turn starts with an empty fragment table, or the loop is
\* left when the turns are used up
ReadEnvResponse ==
  /\ WorkerRunning
  /\ worker.pc = "waitenv"
  /\ stdin # <<>>
  /\ stdin' = Tail(stdin)
  /\ IF ~MatchesEnvResponse(Head(stdin), worker.rid)
     THEN UNCHANGED worker
     ELSE IF worker.turn + 1 < max_turns
     THEN worker' = [worker EXCEPT !.pc = "turn", !.turn = @ + 1, !.rid = NoRid,
                                   !.text = FALSE, !.frags = <<>>, !.calls = <<>>,
                                   !.results = <<>>, !.k = 0]
     ELSE worker' = [worker EXCEPT !.pc = "ended"]
  /\ UNCHANGED <<orchestrator, queue, log>>
  /\ UNCHANGED scratch

\* The end markers sent after the turn loop
EndMarkers(frags) == [n \in 1..Len(frags) |-> Marker("tool_json_end", frags[n].id)]

\* After the turn loop: one tool_json_end for every fragment of
\* tool_call_fragments, in index order
SendEndMarkers ==
  /\ WorkerRunning
  /\ worker.pc = "ended"
  /\ Write([n \in 1..Len(worker.frags) |->
             Stream(wproc, worker.sess, worker.gen, "tool_json_end", worker.frags[n].id)])
  /\ worker' = [worker EXCEPT !.pc = "done", !.out = @ \o EndMarkers(worker.frags)]
  /\ UNCHANGED <<orchestrator, stdin, log>>
  /\ UNCHANGED scratch

\* The finished message that ends handle_interaction_request
SendFinished ==
  /\ WorkerRunning
  /\ worker.pc = "done"
  /\ LET status == FinishStatus(worker.err, worker.turn) IN
       /\ Write(<<FinishedLine(worker, status, worker.hist)>>)
       /\ log' = [log EXCEPT !.failed = IF status = "llm_error"
                                         THEN @ \cup {worker.gen} ELSE @]
  /\ worker' = IdleWorker
  /\ UNCHANGED <<orchestrator, stdin>>
  /\ UNCHANGED scratch

\* An exception outside the LLM stream (here: while the prompt of a turn is
\* prepared): error chunk and finished with status critical_error, which
\* carries no final_history
CriticalError ==
  /\ WorkerRunning
  /\ worker.pc = "turn"
  /\ ~worker.text
  /\ worker.frags = <<>>
  /\ Write(<<Stream(wproc, worker.sess, worker.gen, "error", NoId),
             Finished(wproc, worker.sess, worker.gen, "critical_error", FALSE, <<>>)>>)
  /\ log' = [log EXCEPT !.failed = @ \cup {worker.gen}]
  /\ worker' = IdleWorker
  /\ UNCHANGED <<orchestrator, stdin>>
  /\ UNCHANGED scratch

\* ------------------------------------------------------------------------
\* Stream content on its way to the frontend (emigo.py, utils.py)
\* ------------------------------------------------------------------------
\* A text is a sequence of characters; the two tags of an environment details
\* block are taken as one character each
OPEN == "<environment_details>"
CLOSE == "</environment_details>"
Chars == {"x", " ", OPEN, CLOSE}
Whitespace == {" ", "\n"}
Contents == UNION {[1..n -> Chars] : n \in 0..MaxContent}
StreamRoles == {"llm", "error", "tool_json", "tool_json_args", "tool_json_end"}

\* `.*?</environment_details>`: the first closing tag at or after i, 0 if none
RECURSIVE FirstClose(_, _)
FirstClose(text, i) ==
  IF i > Len(text) THEN 0
  ELSE IF text[i] = CLOSE THEN i ELSE FirstClose(text, i + 1)

\* `\s*`: the first position at or after i that holds no white space
RECURSIVE SkipSpace(_, _)
SkipSpace(text, i) ==
  IF i <= Len(text) /\ text[i] \in Whitespace THEN SkipSpace(text, i + 1) ELSE i

\* re.sub from position i on: leftmost non-overlapping matches, each replaced
\* by "\n"
RECURSIVE SubFrom(_, _)
SubFrom(text, i) ==
  IF i > Len(text) THEN <<>>
  ELSE IF text[i] = OPEN /\ FirstClose(text, i + 1) # 0
       THEN <<"\n">> \o SubFrom(text, SkipSpace(text, FirstClose(text, i + 1) + 1))
       ELSE <<text[i]>> \o SubFrom(text, i + 1)

\* utils._filter_environment_details
filter_environment_details(text) == SubFrom(text, 1)

\* (mutant) argument fragments are filtered like every other content
FiltersContent_Always(role) == TRUE

\* `if role != "tool_json_args"`
FiltersContent(role) == role # "tool_json_args"

\* `message.get("tool_id")`: None, or the id of a tool call
StreamToolIds == {NoId, ToolCallId(1, 0, 0)}

\* A stream message reaches the processor thread
StreamArrives ==
  /\ call.op = "none"
  /\ \E role \in StreamRoles : \E content \in Contents : \E tool_id \in StreamToolIds :
       call' = [op |-> "stream", pc |-> "received", role |-> role, content |-> content,
                tool_id |-> tool_id]
  /\ emacs' = <<>>
  /\ UNCHANGED <<active, history, chat_files, caches, pending, queue, wproc, alive,
                 readers, pthread, phandle, lockStuck, rpc, stdin, pipe, worker, nspawn,
                 ngen, log, files>>

\* msg_type == "stream": the content is filtered unless it is an argument
\* fragment and flushed to the frontend when it is non-empty or the role is
\* tool_json
FlushStream ==
  /\ call.op = "stream"
  /\ call.pc = "received"
  /\ LET filtered_content == IF FiltersContent(call.role)
                             THEN filter_environment_details(call.content)
                             ELSE call.content
     IN emacs' = IF filtered_content # <<>> \/ call.role = "tool_json"
                 THEN <<[fn |-> "emigo--flush-buffer", content |-> filtered_content,
                         role |-> call.role, tool_id |-> call.tool_id]>>
                 ELSE <<>>
  /\ call' = [call EXCEPT !.pc = "done"]
  /\ UNCHANGED <<active, history, chat_files, caches, pending, queue, wproc, alive,
                 readers, pthread, phandle, lockStuck, rpc, stdin, pipe, worker, nspawn,
                 ngen, log, files>>

\* C30: every tool_json start marker and every tool_json_end end marker that
\* the Orchestrator receives is forwarded to the frontend as a stream chunk
\* with the same role and tool_id, although its content is empty
C30_MarkersForwarded ==
  (/\ call.op = "stream"
   /\ call.pc = "done"
   /\ call.role \in {"tool_json", "tool_json_end"}
   /\ call.content = <<>>)
  => /\ emacs # <<>>
     /\ emacs[1].role = call.role
     /\ emacs[1].tool_id = call.tool_id

\* The text without its complete blocks, nothing put in their place
RECURSIVE WithoutBlocks(_, _)
WithoutBlocks(text, i) ==
  IF i > Len(text) THEN <<>>
  ELSE IF text[i] = OPEN /\ FirstClose(text, i + 1) # 0
       THEN WithoutBlocks(text, FirstClose(text, i + 1) + 1)
       ELSE <<text[i]>> \o WithoutBlocks(text, i + 1)

\* The complete blocks of the text, counted from the left without overlap
RECURSIVE Blocks(_, _)
Blocks(text, i) ==
  IF i > Len(text) THEN 0
  ELSE IF text[i] = OPEN /\ FirstClose(text, i + 1) # 0
       THEN 1 + Blocks(text, FirstClose(text, i + 1) + 1)
       ELSE Blocks(text, i + 1)

\* The characters of the text that are not white space, in order
Solid(text) == SelectSeq(text, LAMBDA c : c \notin Whitespace)

\* The frontend has been handed the content of the stream message
Flushed == call.op = "stream" /\ call.pc = "done" /\ emacs # <<>>

LlmOutcomes == {"text", "tool_calls", "unparsed_tool_calls", "llm_error"}

\* (mutant) the loop has no limit
InRange_Unbounded(turn) == TRUE

\* `for turn in range(max_turns)`
InRange(turn) == turn < max_turns

\* An interaction_request is read by main(): the turn loop is entered
InteractionArrives ==
  /\ call.op = "none"
  /\ call' = [op |-> "interaction", pc |-> "turn", turn |-> 0, llm_calls |-> 0,
              err |-> FALSE, last |-> "none", status |-> "none"]
  /\ UNCHANGED <<active, history, chat_files, caches, pending, queue, wproc, alive,
                 readers, pthread, phandle, lockStuck, rpc, stdin, pipe, worker, nspawn,
                 ngen, log, files, emacs>>

\* One turn up to the end of the stream: llm_client.send is called once; the
\* loop is left on an error and when no tool call was parsed
CallsLlm ==
  /\ call.op = "interaction"
  /\ call.pc = "turn"
  /\ \E outcome \in LlmOutcomes :
       call' = [call EXCEPT !.llm_calls = @ + 1,
                            !.err = (outcome = "llm_error"),
                            !.last = outcome,
                            !.pc = IF outcome = "tool_calls" THEN "tools" ELSE "ended"]
  /\ UNCHANGED <<active, history, chat_files, caches, pending, queue, wproc, alive,
                 readers, pthread, phandle, lockStuck, rpc, stdin, pipe, worker, nspawn,
                 ngen, log, files, emacs>>

\* The tools of the turn are executed: the loop is left on a completion, a
\* denial or a tool error, otherwise the environment details are refreshed
\* and the loop goes to its next turn if there is one
RunsTools ==
  /\ call.op = "interaction"
  /\ call.pc = "tools"
  /\ \E result \in {TOOL_OK, TOOL_DENIED, TOOL_ERROR, COMPLETION_SIGNALLED} :
       call' = IF EndsInteraction(result)
               THEN [call EXCEPT !.pc = "ended", !.last = result]
               ELSE IF InRange(call.turn + 1)
               THEN [call EXCEPT !.pc = "turn", !.turn = @ + 1, !.last = result]
               ELSE [call EXCEPT !.pc = "ended", !.last = result]
  /\ UNCHANGED <<active, history, chat_files, caches, pending, queue, wproc, alive,
                 readers, pthread, phandle, lockStuck, rpc, stdin, pipe, worker, nspawn,
                 ngen, log, files, emacs>>

\* After the loop: the status of the finished message
LoopFinishes ==
  /\ call.op = "interaction"
  /\ call.pc = "ended"
  /\ call' = [call EXCEPT !.pc = "done", !.status = FinishStatus(call.err, call.turn)]
  /\ UNCHANGED <<active, history, chat_files, caches, pending, queue, wproc, alive,
                 readers, pthread, phandle, lockStuck, rpc, stdin, pipe, worker, nspawn,
                 ngen, log, files, emacs>>

\* C13: the Worker calls the LLM at most max_turns = 10 times for one
\* interaction_request, whatever the tool calls and their results.
C13_AtMostTenLlmCalls ==
  call.op = "interaction" => (call.llm_calls <= 10 /\ call.llm_calls <= call.turn + 1)

\* C13 witness: an interaction has ended after its tenth LLM call, every turn
\* before having run a tool that lets the interaction go on
C13_Witness ==
  /\ call.op = "interaction"
  /\ call.pc = "done"
  /\ call.llm_calls = 10
  /\ call.last = TOOL_OK
  /\ call.status = "max_turns_reached"

\* C34: the finished status is max_turns_reached only when the turn limit cut
\* the interaction off, the last turn having run its tools with a result that
\* lets the loop go on; an interaction that ends by itself in its tenth turn
\* (no tool call, completion, denial, tool error) has status success
C34_MaxTurnsOnlyWhenCutOff ==
  (call.op = "interaction" /\ call.pc = "done" /\ ~call.err) =>
     (call.status = "max_turns_reached" <=> (call.turn = max_turns - 1 /\ call.last = TOOL_OK))

\* ------------------------------------------------------------------------
\* The files of the chat context (session.py)
\* ------------------------------------------------------------------------
\* A path is a sequence of components below the root, a component a sequence
\* of characters.  The session directory is /p; /p2 is a sibling directory
\* whose name starts with the name of the session directory.
session_path == << <<"p">> >>
DotDot == <<".", ".">>
FilePaths ==
  { << <<"p">>, <<"f">> >>,
    << <<"p">>, <<"d">>, <<"f">> >>,
    << <<"p", "2">>, <<"f">> >>,
    << <<"q">>, <<"f">> >> }
DirPaths == { << <<"p">>, <<"d">> >>, << <<"p", "2">> >> }

\* The path as the string the program holds: "/" before every component
RECURSIVE PathString(_)
PathString(path) ==
  IF path = <<>> THEN <<>> ELSE <<"/">> \o Head(path) \o PathString(Tail(path))

\* str.startswith
StartsWith(str, prefix) ==
  Len(prefix) <= Len(str) /\ SubSeq(str, 1, Len(prefix)) = prefix

\* The number of leading components two paths share
RECURSIVE CommonLen(_, _)
CommonLen(a, b) ==
  IF a # <<>> /\ b # <<>> /\ Head(a) = Head(b)
  THEN 1 + CommonLen(Tail(a), Tail(b)) ELSE 0

\* os.path.relpath(path, start) of two absolute paths: ".." for every
\* component of start below the common part, then the rest of path
relpath(path, start) ==
  LET c == CommonLen(path, start) IN
  [n \in 1..(Len(start) - c) |-> DotDot] \o SubSeq(path, c + 1, Len(path))

\* os.path.abspath(os.path.join(start, rel)): every ".." takes one component
\* away
RECURSIVE abspath(_, _)
abspath(start, rel) ==
  IF rel = <<>> THEN start
  ELSE IF Head(rel) = DotDot
       THEN abspath(IF start = <<>> THEN <<>> ELSE Front(start), Tail(rel))
       ELSE abspath(Append(start, Head(rel)), Tail(rel))

\* `abs_path.startswith(self.session_path)`
InsideSession(abs_path) == StartsWith(PathString(abs_path), PathString(session_path))

\* Session.__init__ for the directory /p; what is on disk is not the
\* program's choice
SessionOpens ==
  /\ files.op = "none"
  /\ \E disk \in SUBSET FilePaths :
       files' = [op |-> "session", disk |-> disk, chat_files |-> <<>>, cached |-> {}]
  /\ UNCHANGED <<active, history, chat_files, caches, pending, queue, wproc, alive,
                 readers, pthread, phandle, lockStuck, rpc, stdin, pipe, worker, nspawn,
                 ngen, log, call, emacs>>

\* A file of the disk is deleted behind the program's back
FileDeleted ==
  /\ files.op = "session"
  /\ \E path \in files.disk : files' = [files EXCEPT !.disk = @ \ {path}]
  /\ UNCHANGED <<active, history, chat_files, caches, pending, queue, wproc, alive,
                 readers, pthread, phandle, lockStuck, rpc, stdin, pipe, worker, nspawn,
                 ngen, log, call, emacs>>

InChat(rel, chat) == \E n \in 1..Len(chat) : chat[n] = rel

\* Session.add_file_to_context(filename) for an absolute filename
AddFile ==
  /\ files.op = "session"
  /\ \E filename \in FilePaths \cup DirPaths :
       LET rel_filename == relpath(filename, session_path)
           abs_path == abspath(session_path, rel_filename)
       IN files' = IF /\ abs_path \in files.disk
                      /\ InsideSession(abs_path)
                      /\ ~InChat(rel_filename, files.chat_files)
                   THEN [files EXCEPT !.chat_files = Append(@, rel_filename),
                                      !.cached = @ \cup {rel_filename}]
                   ELSE files
  /\ UNCHANGED <<active, history, chat_files, caches, pending, queue, wproc, alive,
                 readers, pthread, phandle, lockStuck, rpc, stdin, pipe, worker, nspawn,
                 ngen, log, call, emacs>>

\* Session.remove_file_from_context(filename) for an absolute filename:
\* list.remove takes the first occurrence away
RemoveFile ==
  /\ files.op = "session"
  /\ \E filename \in FilePaths \cup DirPaths :
       LET rel_filename == relpath(filename, session_path)
           chat == files.chat_files
       IN /\ InChat(rel_filename, chat)
          /\ LET n == CHOOSE k \in 1..Len(chat) :
                         chat[k] = rel_filename /\ \A j \in 1..(k - 1) : chat[j] # rel_filename
             IN files' = [files EXCEPT !.chat_files =
                            SubSeq(chat, 1, n - 1) \o SubSeq(chat, n + 1, Len(chat)),
                          !.cached = @ \ {rel_filename}]
  /\ UNCHANGED <<active, history, chat_files, caches, pending, queue, wproc, alive,
                 readers, pthread, phandle, lockStuck, rpc, stdin, pipe, worker, nspawn,
                 ngen, log, call, emacs>>

\* The results of read_file
READ_OK == "read and added to context"
READ_NOT_FOUND == "File not found"

\* read_file(session, params) for a path relative to the session directory:
\* add_file_to_context(abs_path), and _update_file_cache(rel_path) when the
\* file was not added
ReadFile ==
  /\ files.op = "session"
  /\ call.op = "none"
  /\ \E path \in FilePaths \cup DirPaths :
       LET rel_path == relpath(path, session_path)
           abs_path == abspath(session_path, rel_path)
           rel_filename == relpath(abs_path, session_path)
           added == /\ InsideSession(abs_path)
                    /\ ~InChat(rel_filename, files.chat_files)
       IN IF abs_path \notin files.disk
          THEN /\ call' = [op |-> "read_file", path |-> rel_path, result |-> READ_NOT_FOUND]
               /\ files' = files
          ELSE /\ call' = [op |-> "read_file", path |-> rel_path, result |-> READ_OK]
               /\ files' = IF added
                           THEN [files EXCEPT !.chat_files = Append(@, rel_filename),
                                              !.cached = @ \cup {rel_filename}]
                           ELSE [files EXCEPT !.cached = @ \cup {rel_path}]
  /\ UNCHANGED <<active, history, chat_files, caches, pending, queue, wproc, alive,
                 readers, pthread, phandle, lockStuck, rpc, stdin, pipe, worker, nspawn,
                 ngen, log, emacs>>

\* The path lies in the session directory: its components begin with those of
\* the session directory
Below(abs_path) ==
  Len(abs_path) > Len(session_path) /\ SubSeq(abs_path, 1, Len(session_path)) = session_path

\* C14: after any sequence of add and remove operations chat_files holds no
\* path twice, and every path that enters it is, at that moment, a regular
\* file at session/P that lies inside the session directory (a file of the
\* sibling /p2 is outside).
C14_ChatFilesInside ==
  [][ files'.op = "session" =>
        LET chat == files'.chat_files IN
        /\ \A m, n \in 1..Len(chat) : chat[m] = chat[n] => m = n
        /\ \A n \in 1..Len(chat) :
              (files.op = "session" /\ ~InChat(chat[n], files.chat_files)) =>
                 /\ abspath(session_path, chat[n]) \in files.disk
                 /\ Below(abspath(session_path, chat[n]))
    ]_vars

\* ------------------------------------------------------------------------
\* add_file_to_context on two threads (AddRaceSpec): the frontend RPC thread
\* that serves the add_file_to_context call, and the queue processor thread
\* that executes read_file.  Session has no lock: the test `rel_filename not
\* in self.chat_files` and the append are separate steps of a thread.
\* ------------------------------------------------------------------------
AddThreads == {"rpc", "drain"}
IdleAdd == [pc |-> "idle", rel |-> <<>>]
AddCalls == IF call.op = "add" THEN call.th ELSE [t \in AddThreads |-> IdleAdd]

\* A thread enters add_file_to_context and evaluates its tests; the processor
\* thread comes from read_file, which has tested os.path.isfile itself and
\* calls _update_file_cache(rel_path) when the file was not added
AddChecks(t) ==
  /\ files.op = "session"
  /\ AddCalls[t].pc = "idle"
  /\ \E filename \in FilePaths \cup DirPaths :
       LET rel_filename == relpath(filename, session_path)
           abs_path == abspath(session_path, rel_filename)
           adds == /\ abs_path \in files.disk
                   /\ InsideSession(abs_path)
                   /\ ~InChat(rel_filename, files.chat_files)
       IN /\ call' = [op |-> "add",
                      th |-> [AddCalls EXCEPT ![t] =
                                IF adds THEN [pc |-> "append", rel |-> rel_filename]
                                ELSE IdleAdd]]
          /\ files' = IF t = "drain" /\ abs_path \in files.disk /\ ~adds
                      THEN [files EXCEPT !.cached = @ \cup {rel_filename}]
                      ELSE files
  /\ UNCHANGED <<active, history, chat_files, caches, pending, queue, wproc, alive,
                 readers, pthread, phandle, lockStuck, rpc, stdin, pipe, worker, nspawn,
                 ngen, log, emacs>>

\* `self.chat_files.append(rel_filename)` and `self._update_file_cache(
\* rel_filename)` of the thread whose test found the file absent
AddAppends(t) ==
  /\ files.op = "session"
  /\ AddCalls[t].pc = "append"
  /\ files' = [files EXCEPT !.chat_files = Append(@, AddCalls[t].rel),
                            !.cached = @ \cup {AddCalls[t].rel}]
  /\ call' = [op |-> "add", th |-> [AddCalls EXCEPT ![t] = IdleAdd]]
  /\ UNCHANGED <<active, history, chat_files, caches, pending, queue, wproc, alive,
                 readers, pthread, phandle, lockStuck, rpc, stdin, pipe, worker, nspawn,
                 ngen, log, emacs>>

\* C29: session mutations are serialized: whatever the interleaving of an
\* add_file call on a frontend RPC thread with a read_file on the queue
\* processor thread for the same file, once both have returned chat_files
\* holds that path exactly once
C29_AddedOnce ==
  (files.op = "session" /\ \A t \in AddThreads : AddCalls[t].pc = "idle") =>
     \A m, n \in 1..Len(files.chat_files) :
        files.chat_files[m] = files.chat_files[n] => m = n

\* ------------------------------------------------------------------------
\* replace_in_file: the text of a file and of a diff (ReplaceSpec, CompareSpec)
\* ------------------------------------------------------------------------
\* A text is a sequence of characters; the words of the three markers of a
\* diff are one element each, the line endings of the markers are characters
\* like any other
SEARCH_MARKER == <<"<<<<<<< SEARCH", "\n">>
DIVIDER_MARKER == <<"\n", "=======", "\n">>
REPLACE_MARKER == <<"\n", ">>>>>>> REPLACE">>
Markers == {SEARCH_MARKER, DIVIDER_MARKER, REPLACE_MARKER}
NL == <<"\n">>

\* str.strip: the white space at both ends goes
RECURSIVE lstrip(_)
lstrip(line) ==
  IF line # <<>> /\ Head(line) \in Whitespace THEN lstrip(Tail(line)) ELSE line
RECURSIVE rstrip(_)
rstrip(line) ==
  IF line # <<>> /\ Last(line) \in Whitespace THEN rstrip(Front(line)) ELSE line
strip(line) == rstrip(lstrip(line))

\* str.splitlines(keepends=True): every line keeps its line ending, the last
\* line has one only if the text ends with one
RECURSIVE splitlines(_)
splitlines(text) ==
  IF text = <<>> THEN <<>>
  ELSE LET ends == {n \in 1..Len(text) : text[n] = "\n"} IN
       IF ends = {} THEN <<text>>
       ELSE LET n == CHOOSE e \in ends : \A o \in ends : e <= o
            IN <<SubSeq(text, 1, n)>> \o splitlines(SubSeq(text, n + 1, Len(text)))

\* difflib.SequenceMatcher: the number of matched characters, the longest
\* common block first (the leftmost in a, then the leftmost in b), then the
\* parts to its left and to its right
RECURSIVE MatchSize(_, _)
MatchSize(a, b) ==
  LET Common(k) == {ij \in (1..(Len(a) - k + 1)) \X (1..(Len(b) - k + 1)) :
                      SubSeq(a, ij[1], ij[1] + k - 1) = SubSeq(b, ij[2], ij[2] + k - 1)}
      sizes == {k \in 1..Len(a) : k <= Len(b) /\ Common(k) # {}}
  IN IF sizes = {} THEN 0
     ELSE LET k == CHOOSE s \in sizes : \A o \in sizes : o <= s
              ij == CHOOSE m \in Common(k) :
                      \A o \in Common(k) : m[1] < o[1] \/ (m[1] = o[1] /\ m[2] <= o[2])
          IN k + MatchSize(SubSeq(a, 1, ij[1] - 1), SubSeq(b, 1, ij[2] - 1))
               + MatchSize(SubSeq(a, ij[1] + k, Len(a)), SubSeq(b, ij[2] + k, Len(b)))

\* A similarity is the fraction num/den; SequenceMatcher.ratio is 2*M/T
One == [num |-> 1, den |-> 1]
Zero == [num |-> 0, den |-> 1]
ratio(a, b) == [num |-> 2 * MatchSize(a, b), den |-> Len(a) + Len(b)]

\* `_compare_stripped_lines(line1, line2)`
StripsBoth_Neither(line) == line
StripsBoth(line) == strip(line)
compare_stripped_lines(line1, line2) ==
  LET stripped1 == StripsBoth(line1)
      stripped2 == StripsBoth(line2)
  IN IF stripped1 = <<>> /\ stripped2 = <<>> THEN One
     ELSE IF stripped1 = <<>> \/ stripped2 = <<>> THEN Zero
     ELSE ratio(stripped1, stripped2)

\* `ratio >= similarity_threshold`, the threshold in hundredths
similarity_threshold == 85
Reaches(r) == r.num * 100 >= similarity_threshold * r.den

\* The position of the first `marker` of the text at or after position n, 0
\* if there is none
FirstAt(text, marker, n) ==
  LET at == {m \in n..(Len(text) - Len(marker) + 1) :
               SubSeq(text, m, m + Len(marker) - 1) = marker} IN
  IF at = {} THEN 0 ELSE CHOOSE m \in at : \A o \in at : m <= o

\* pattern.findall(diff_str) from position n: SEARCH marker, the shortest
\* text up to a divider, the shortest text up to a REPLACE marker
RECURSIVE findall(_, _)
findall(diff_str, n) ==
  LET s == FirstAt(diff_str, SEARCH_MARKER, n)
      d == IF s = 0 THEN 0 ELSE FirstAt(diff_str, DIVIDER_MARKER, s + Len(SEARCH_MARKER))
      r == IF d = 0 THEN 0 ELSE FirstAt(diff_str, REPLACE_MARKER, d + Len(DIVIDER_MARKER))
  IN IF r = 0 THEN <<>>
     ELSE << <<SubSeq(diff_str, s + Len(SEARCH_MARKER), d - 1),
               SubSeq(diff_str, d + Len(DIVIDER_MARKER), r - 1)>> >>
          \o findall(diff_str, r + Len(REPLACE_MARKER))

HasMarker(text) == \E marker \in Markers : FirstAt(text, marker, 1) # 0

\* `_parse_search_replace_blocks(diff_str)`: the blocks, or none and an error
parse_search_replace_blocks(diff_str) ==
  LET found_blocks == findall(diff_str, 1) IN
  IF found_blocks = <<>> THEN [blocks |-> <<>>, error |-> "no blocks"]
  ELSE IF \E n \in 1..Len(found_blocks) :
            HasMarker(found_blocks[n][1]) \/ HasMarker(found_blocks[n][2])
       THEN [blocks |-> <<>>, error |-> "nested markers"]
       ELSE [blocks |-> found_blocks, error |-> "none"]

\* (mutant) only the first search line is compared
MatchesAt_FirstLine(search_lines, file_lines, used, start) ==
  /\ start \notin used
  /\ search_lines # <<>> =>
       Reaches(compare_stripped_lines(search_lines[1], file_lines[start]))

\* The search lines match the file lines from line `start` on (lines count
\* from 1): no line of the match is claimed by an earlier block, every
\* search line reaches the threshold against its file line
MatchesAt(search_lines, file_lines, used, start) ==
  \A k \in 0..(Len(search_lines) - 1) :
     /\ start + k <= Len(file_lines)
     /\ start + k \notin used
     /\ Reaches(compare_stripped_lines(search_lines[k + 1], file_lines[start + k]))

\* `already_matched_file_line_indices` after a match of match_len lines
Claims_Nothing(used, start, match_len) == used
Claims(used, start, match_len) == used \cup (start..(start + match_len - 1))

\* (mutant) an empty SEARCH text ends the loop over the blocks
AfterEmpty_Stops(n, last) == last + 1

\* `continue` after the error of a block whose SEARCH text is empty: the loop
\* goes on with the next block
AfterEmpty(n, last) == n + 1

\* The loop over the parsed blocks from block n on: the replacements, the
\* numbers of the blocks with an error, the file lines claimed so far
RECURSIVE MatchBlocks(_, _, _, _)
MatchBlocks(parsed_blocks, n, file_lines, acc) ==
  IF n > Len(parsed_blocks) THEN acc
  ELSE LET search_text == parsed_blocks[n][1]
           replace_text == parsed_blocks[n][2]
           search_lines == splitlines(search_text)
           starts == {i \in 1..Len(file_lines) :
                        MatchesAt(search_lines, file_lines, acc.used, i)}
       IN IF search_lines = <<>> \/ strip(search_text) = <<>>
          THEN MatchBlocks(parsed_blocks, AfterEmpty(n, Len(parsed_blocks)), file_lines,
                           [acc EXCEPT !.errors = Append(@, n)])
          ELSE IF starts = {}
          THEN MatchBlocks(parsed_blocks, n + 1, file_lines,
                           [acc EXCEPT !.errors = Append(@, n)])
          ELSE LET start_line_num == CHOOSE i \in starts : \A o \in starts : i <= o
                   match_len == Len(search_lines)
                   elisp_end_line_num == start_line_num + match_len
               IN MatchBlocks(parsed_blocks, n + 1, file_lines,
                    [acc EXCEPT
                       !.replacements =
                          Append(@, <<start_line_num, elisp_end_line_num, replace_text>>),
                       !.used = Claims(@, start_line_num, match_len)])

NoMatches == [replacements |-> <<>>, errors |-> <<>>, used |-> {}]

\* The concatenation of a sequence of texts
RECURSIVE Join(_)
Join(texts) == IF texts = <<>> THEN <<>> ELSE Head(texts) \o Join(Tail(texts))

\* The lines a file is made of, the file contents, the SEARCH and REPLACE
\* texts of a block as the LLM writes them
FileLines == { <<"a", "\n">>, <<" ", "a", " ", "\n">>, <<"b", "\n">> }
FileContents == {Join(ls) : ls \in UNION {[1..k -> FileLines] : k \in 0..MaxLines}}
Missing == <<"missing">>
SearchTexts == { <<>>, <<" ">>, <<"a">>, <<"b">>, <<"a", "\n", "b">> }
ReplaceTexts == { <<"c">> }
DiffBlocks == SearchTexts \X ReplaceTexts

\* One block of a diff, its markers around the two texts
Block(b) == SEARCH_MARKER \o b[1] \o DIVIDER_MARKER \o b[2] \o REPLACE_MARKER
RECURSIVE Blocks2Diff(_)
Blocks2Diff(bs) ==
  IF bs = <<>> THEN <<>>
  ELSE Block(Head(bs)) \o (IF Tail(bs) = <<>> THEN <<>> ELSE NL \o Blocks2Diff(Tail(bs)))
Diffs ==
  {Blocks2Diff(bs) : bs \in UNION {[1..k -> DiffBlocks] : k \in 0..MaxBlocks}}
    \cup { SEARCH_MARKER \o <<"a">> }

NoCache == [mtime |-> 0]
NoContent == <<"none">>

\* Session._update_file_cache(rel_path, content) on the file; the value is
\* the cache entry of the file after the call
update_file_cache_Kept(f, content) == f.cache
update_file_cache(f, content) ==
  IF f.disk = Missing THEN NoCache
  ELSE IF content = NoContent
       THEN IF f.cache = NoCache \/ f.cache.mtime # f.mtime
            THEN [mtime |-> f.mtime, content |-> f.disk]
            ELSE f.cache
       ELSE [mtime |-> f.mtime, content |-> content]

\* `if errors:` is false: the replacements go to the editor
Submits_Always(errors) == TRUE
Submits(errors) == errors = <<>>

\* The results of replace_in_file
FILE_NOT_FOUND == "File not found"
MISSING_DIFF == "Missing required parameter 'diff'"
PARSE_ERROR == "No valid SEARCH/REPLACE blocks"
BLOCK_ERRORS == "Failed to apply replacements"
NOTHING_TO_APPLY == "No replacements could be applied"
EDITOR_ERROR == "Error applying replacements in Emacs"
REPLACED == "File modified successfully"
REPLACED_UNCACHED == "File modified successfully (could not update session cache)"

Returned(diff_str, result, file_content, matches) ==
  [op |-> "replace_in_file", pc |-> "done", diff |-> diff_str, result |-> result,
   file_content |-> file_content, replacements |-> matches.replacements,
   errors |-> matches.errors]

\* replace_in_file(session, params) up to its call of the editor, for the
\* file the path names and the diff of the LLM: the early errors, the cached
\* content, the blocks, the matches, the aggregated error, the request
ReplaceInFile ==
  /\ call.op = "none"
  /\ files.op = "none"
  /\ emacs = <<>>
  /\ \E disk \in FileContents \cup {Missing}, diff_str \in Diffs :
       LET f == [op |-> "file", disk |-> disk, mtime |-> 1, cache |-> NoCache]
           cache == update_file_cache(f, NoContent)
           parsed == parse_search_replace_blocks(diff_str)
           matches == IF disk = Missing \/ parsed.error # "none" THEN NoMatches
                      ELSE MatchBlocks(parsed.blocks, 1, splitlines(cache.content), NoMatches)
       IN IF diff_str = <<>>
          THEN /\ call' = Returned(diff_str, MISSING_DIFF, NoContent, NoMatches)
               /\ files' = f
               /\ emacs' = emacs
          ELSE IF disk = Missing
          THEN /\ call' = Returned(diff_str, FILE_NOT_FOUND, NoContent, NoMatches)
               /\ files' = f
               /\ emacs' = emacs
          ELSE IF parsed.error # "none"
          THEN /\ call' = Returned(diff_str, PARSE_ERROR, cache.content, NoMatches)
               /\ files' = [f EXCEPT !.cache = cache]
               /\ emacs' = emacs
          ELSE IF ~Submits(matches.errors)
          THEN /\ call' = Returned(diff_str, BLOCK_ERRORS, cache.content, matches)
               /\ files' = [f EXCEPT !.cache = cache]
               /\ emacs' = emacs
          ELSE IF matches.replacements = <<>>
          THEN /\ call' = Returned(diff_str, NOTHING_TO_APPLY, cache.content, matches)
               /\ files' = [f EXCEPT !.cache = cache]
               /\ emacs' = emacs
          ELSE /\ call' = [Returned(diff_str, "none", cache.content, matches) EXCEPT !.pc = "emacs"]
               /\ files' = [f EXCEPT !.cache = cache]
               /\ emacs' = << [fn |-> "replace-regions-sync",
                               replacements |-> matches.replacements,
                               result |-> "pending"] >>
  /\ UNCHANGED <<active, history, chat_files, caches, pending, queue, wproc, alive,
                 readers, pthread, phandle, lockStuck, rpc, stdin, pipe, worker, nspawn,
                 ngen, log>>

\* The editor's replace_regions(path, regions) on the lines of the file: the
\* entry lowest in the file first, lines start..end-1 give way to its text
RECURSIVE replace_lines(_, _, _)
replace_lines(lines, regions, todo) ==
  IF todo = {} THEN lines
  ELSE LET n == CHOOSE m \in todo : \A o \in todo : regions[o][1] <= regions[m][1]
           r == regions[n]
       IN replace_lines(SubSeq(lines, 1, r[1] - 1) \o <<r[3]>> \o SubSeq(lines, r[2], Len(lines)),
                        regions, todo \ {n})
replace_regions(content, regions) ==
  Join(replace_lines(splitlines(content), regions, DOMAIN regions))

\* The editor applies the replacements, saves the file and answers t
EditorReplaces ==
  /\ call.op = "replace_in_file" /\ call.pc = "emacs"
  /\ emacs[1].result = "pending"
  /\ files' = [files EXCEPT !.disk = replace_regions(@, emacs[1].replacements),
                            !.mtime = @ + 1]
  /\ emacs' = [emacs EXCEPT ![1].result = "t"]
  /\ UNCHANGED <<active, history, chat_files, caches, pending, queue, wproc, alive,
                 readers, pthread, phandle, lockStuck, rpc, stdin, pipe, worker, nspawn,
                 ngen, log, call>>

\* The editor answers with an error: it has changed nothing, or it has
\* applied the entry lowest in the file and saved before it failed
EditorFails ==
  /\ call.op = "replace_in_file" /\ call.pc = "emacs"
  /\ emacs[1].result = "pending"
  /\ \E partly \in BOOLEAN :
       LET regions == emacs[1].replacements
           n == CHOOSE m \in DOMAIN regions :
                   \A o \in DOMAIN regions : regions[o][1] <= regions[m][1]
       IN files' = IF partly
                   THEN [files EXCEPT !.disk = replace_regions(@, <<regions[n]>>),
                                      !.mtime = @ + 1]
                   ELSE files
  /\ emacs' = [emacs EXCEPT ![1].result = "error"]
  /\ UNCHANGED <<active, history, chat_files, caches, pending, queue, wproc, alive,
                 readers, pthread, phandle, lockStuck, rpc, stdin, pipe, worker, nspawn,
                 ngen, log, call>>

\* `read_file_content(abs_path)` and `session._update_file_cache(rel_path,
\* content=updated_content)` after the editor's t; the value is the cache
\* entry of the file
Refreshed_Stale(f) == f.cache
Refreshed(f) == update_file_cache(f, f.disk)

\* replace_in_file from the editor's answer on: t has the file read back and
\* the cache entry written, anything else is returned as the editor's error
ReplaceReturns ==
  /\ call.op = "replace_in_file" /\ call.pc = "emacs"
  /\ emacs[1].result # "pending"
  /\ IF emacs[1].result = "t"
     THEN IF files.disk = Missing
          THEN /\ files' = [files EXCEPT !.cache = NoCache]
               /\ call' = [call EXCEPT !.pc = "done", !.result = REPLACED_UNCACHED]
          ELSE /\ files' = [files EXCEPT !.cache = Refreshed(files)]
               /\ call' = [call EXCEPT !.pc = "done", !.result = REPLACED]
     ELSE /\ files' = files
          /\ call' = [call EXCEPT !.pc = "done", !.result = EDITOR_ERROR]
  /\ UNCHANGED <<active, history, chat_files, caches, pending, queue, wproc, alive,
                 readers, pthread, phandle, lockStuck, rpc, stdin, pipe, worker, nspawn,
                 ngen, log, emacs>>


\* The plan of the call has been submitted to the editor
Submitted == call.op = "replace_in_file" /\ emacs # <<>>

\* C15: whenever replace_in_file submits a replacement plan to the editor,
\* the [start, end_exclusive) line ranges of the entries of the plan are not
\* empty and pairwise disjoint.
C15_RangesDisjoint ==
  \A n \in 1..Len(emacs) :
     LET plan == emacs[n].replacements IN
     \A i, j \in 1..Len(plan) :
        /\ plan[i][1] < plan[i][2]
        /\ i # j => (plan[i][2] <= plan[j][1] \/ plan[j][2] <= plan[i][1])

\* Two blocks with the same SEARCH text are both in the submitted plan
C15_Witness ==
  /\ Submitted
  /\ Len(emacs[1].replacements) = 2
  /\ LET blocks == parse_search_replace_blocks(call.diff).blocks
     IN blocks[1][1] = blocks[2][1]


\* The search lines fit the file lines from line i on: every line i+k exists,
\* is not claimed, and reaches the threshold against search line k
FitsAt(S, F, claimed, i) ==
  \A k \in 1..Len(S) :
     /\ i + k - 1 <= Len(F)
     /\ i + k - 1 \notin claimed
     /\ Reaches(compare_stripped_lines(S[k], F[i + k - 1]))

\* The numbers of the blocks that are in the plan, in block order, and the
\* lines claimed by the first j entries of the plan
RECURSIVE Planned(_, _, _)
Planned(n, last, errors) ==
  IF n > last THEN <<>>
  ELSE (IF \E e \in 1..Len(errors) : errors[e] = n THEN <<>> ELSE <<n>>)
         \o Planned(n + 1, last, errors)
ClaimedBy(plan, j) == UNION {plan[m][1]..(plan[m][2] - 1) : m \in 1..j}

\* C35: for each block, in block order, replace_in_file matches the block at
\* the smallest file line i such that every line i..i+|S|-1 exists, is not
\* claimed by an earlier block and has similarity of at least 0.85 with its
\* SEARCH line, and it claims these lines; a block without such a line is a
\* per-block error
C35_FirstUnclaimedMatch ==
  (call.op = "replace_in_file" /\ call.result \notin {MISSING_DIFF, FILE_NOT_FOUND, PARSE_ERROR}) =>
    LET blocks == parse_search_replace_blocks(call.diff).blocks
        F == splitlines(call.file_content)
        plan == call.replacements
        ok == Planned(1, Len(blocks), call.errors)
    IN /\ Len(ok) = Len(plan)
       /\ \A j \in 1..Len(plan) :
            LET S == splitlines(blocks[ok[j]][1])
                claimed == ClaimedBy(plan, j - 1)
            IN /\ FitsAt(S, F, claimed, plan[j][1])
               /\ \A i \in 1..(plan[j][1] - 1) : ~FitsAt(S, F, claimed, i)
               /\ plan[j][2] = plan[j][1] + Len(S)
       /\ \A e \in 1..Len(call.errors) :
            LET S == splitlines(blocks[call.errors[e]][1])
                before == Cardinality({j \in 1..Len(ok) : ok[j] < call.errors[e]})
            IN strip(blocks[call.errors[e]][1]) # <<>> =>
                 \A i \in 1..Len(F) : ~FitsAt(S, F, ClaimedBy(plan, before), i)

\* C35 witness: two blocks with the same one-line SEARCH text against a file
\* that has the line at 2 and at 3: the plan holds the ranges (2,3) and (3,4)
C35_Witness ==
  /\ Submitted
  /\ LET blocks == parse_search_replace_blocks(call.diff).blocks
     IN Len(blocks) = 2 /\ blocks[1][1] = blocks[2][1]
  /\ Len(emacs[1].replacements) = 2
  /\ emacs[1].replacements[1][1] = 2 /\ emacs[1].replacements[1][2] = 3
  /\ emacs[1].replacements[2][1] = 3 /\ emacs[1].replacements[2][2] = 4


\* The block numbers in the sequence
Members(seq) == {seq[k] : k \in 1..Len(seq)}

\* C36: a block whose SEARCH text is empty or white space only gets a
\* per-block error and claims no line, and the matching goes on: every later
\* block is still evaluated and gets its own match or its own error
C36_EmptySearchIsOneError ==
  (call.op = "replace_in_file" /\ call.result \notin {MISSING_DIFF, FILE_NOT_FOUND, PARSE_ERROR}) =>
    LET blocks == parse_search_replace_blocks(call.diff).blocks
        F == splitlines(call.file_content)
        plan == call.replacements
        ok == Planned(1, Len(blocks), call.errors)
    IN /\ \A n \in 1..Len(blocks) :
            strip(blocks[n][1]) = <<>> => n \in Members(call.errors)
       /\ Members(call.errors) \subseteq 1..Len(blocks)
       /\ Len(plan) = Len(blocks) - Cardinality(Members(call.errors))
       /\ \A m \in 1..Len(blocks) :
            LET S == splitlines(blocks[m][1])
                before == Cardinality({j \in 1..Len(ok) : ok[j] < m})
            IN strip(blocks[m][1]) # <<>> =>
                 (m \in Members(call.errors) <=>
                    \A i \in 1..Len(F) : ~FitsAt(S, F, ClaimedBy(plan, before), i))

\* C36 witness: the first of two blocks has a SEARCH text of white space only
\* and is an error, the second has been matched
C36_Witness ==
  /\ call.op = "replace_in_file"
  /\ call.errors = <<1>>
  /\ Len(call.replacements) = 1
  /\ LET blocks == parse_search_replace_blocks(call.diff).blocks
     IN Len(blocks) = 2 /\ blocks[1][1] = <<" ">>

\* C16: if any block of the diff yields a per-block error (its SEARCH is
\* empty, or no sequential match exists among the lines no earlier block
\* has claimed), replace_in_file returns the one aggregated error, the
\* editor's replace_regions is never called and the file is as it was: no
\* block of the diff is applied.
C16_ErrorsStopPlan ==
  (call.op = "replace_in_file" /\ call.errors # <<>>) =>
     /\ call.pc = "done"
     /\ call.result = BLOCK_ERRORS
     /\ emacs = <<>>
     /\ files.disk = call.file_content

\* The second of two blocks with the same SEARCH text finds its only line
\* claimed by the first
C16_Witness ==
  /\ call.op = "replace_in_file" /\ call.pc = "done"
  /\ call.errors = <<2>>
  /\ Len(call.replacements) = 1
  /\ LET blocks == parse_search_replace_blocks(call.diff).blocks
     IN Len(blocks) = 2 /\ blocks[1][1] = blocks[2][1]


\* C17: when the editor's replace_regions fails (it answers with an error
\* instead of true), replace_in_file has, when it returns, invalidated the
\* session's cache entry of the file (no cached mtime or content of it is
\* left) and returns the editor's error.
C17_EditorFailureInvalidates ==
  (Submitted /\ call.pc = "done" /\ emacs[1].result = "error") =>
     /\ files.cache = NoCache
     /\ call.result = EDITOR_ERROR


EqualsLines(search_text, file_lines, i, j) ==
  Join(SubSeq(file_lines, i, j)) = search_text \o NL

\* C19: for a diff of a single block whose SEARCH text equals the file
\* lines i..j (the first such lines), the plan is exactly [(i, j+1, R)] with
\* R the REPLACE text of the block terminated by a line ending, also when
\* the diff ends directly with the REPLACE marker.
C19_PlanOfSingleBlock ==
  call.op = "replace_in_file" =>
     LET blocks == parse_search_replace_blocks(call.diff).blocks
         file_lines == splitlines(call.file_content)
     IN (Len(blocks) = 1 /\ call.file_content # NoContent) =>
          \A i, j \in 1..Len(file_lines) :
             ( /\ i <= j
               /\ EqualsLines(blocks[1][1], file_lines, i, j)
               /\ \A k \in 1..(i - 1) :
                     ~EqualsLines(blocks[1][1], file_lines, k, k + j - i) )
             => call.replacements = << <<i, j + 1, blocks[1][2] \o NL>> >>


\* The lines _compare_stripped_lines is given: a body, white space before
\* and after it, with or without a line ending
Bodies ==
  { <<>>, <<"a">>, <<"b">>, <<"a", "b">>, <<"a", " ", "b">>,
    <<"x", "=", "a", "+", "b", "*", "c">>, <<"x", "=", "a", "-", "b", "*", "c">> }
Lines ==
  {pre \o body \o post : pre \in {<<>>, <<" ">>}, body \in Bodies,
                         post \in {<<>>, <<"\n">>, <<" ", "\n">>}}

\* `match_ratio = _compare_stripped_lines(search_line, file_line)` for a
\* search line and a file line
ComparesLines ==
  /\ call.op = "none"
  /\ \E line1 \in Lines, line2 \in Lines :
       call' = [op |-> "compare", pc |-> "compared", line1 |-> line1, line2 |-> line2,
                match_ratio |-> compare_stripped_lines(line1, line2), matches |-> FALSE]
  /\ UNCHANGED <<active, history, chat_files, caches, pending, queue, wproc, alive,
                 readers, pthread, phandle, lockStuck, rpc, stdin, pipe, worker, nspawn,
                 ngen, log, files, emacs>>

\* `if match_ratio >= similarity_threshold`
TestsThreshold ==
  /\ call.op = "compare" /\ call.pc = "compared"
  /\ call' = [call EXCEPT !.pc = "tested", !.matches = Reaches(call.match_ratio)]
  /\ UNCHANGED <<active, history, chat_files, caches, pending, queue, wproc, alive,
                 readers, pthread, phandle, lockStuck, rpc, stdin, pipe, worker, nspawn,
                 ngen, log, files, emacs>>

\* A line of white space only, the empty line included
Blank(line) == \A n \in 1..Len(line) : line[n] \in Whitespace

\* The two lines are the same text between white space of their own
SameCore(line1, line2) ==
  \E a1 \in 1..Len(line1), a2 \in 1..Len(line2) :
    \E b1 \in a1..Len(line1), b2 \in a2..Len(line2) :
       /\ Blank(SubSeq(line1, 1, a1 - 1)) /\ Blank(SubSeq(line1, b1 + 1, Len(line1)))
       /\ Blank(SubSeq(line2, 1, a2 - 1)) /\ Blank(SubSeq(line2, b2 + 1, Len(line2)))
       /\ SubSeq(line1, a1, b1) = SubSeq(line2, a2, b2)

\* C20: _compare_stripped_lines gives 1.0 for two lines that differ only in
\* leading and trailing white space, so they match at the threshold 0.85;
\* two blank lines give 1.0 and match; a blank line and a line that is not
\* blank never match.
C20_WhitespaceTolerated ==
  (call.op = "compare" /\ call.pc = "tested") =>
     LET r == call.match_ratio IN
     /\ (SameCore(call.line1, call.line2) /\ ~Blank(call.line1) /\ ~Blank(call.line2))
           => (r.num = r.den /\ call.matches)
     /\ (Blank(call.line1) /\ Blank(call.line2)) => (r.num = r.den /\ call.matches)
     /\ (Blank(call.line1) # Blank(call.line2)) => ~call.matches

\* Two different lines with the same text between their white space have
\* been compared and match
C20_Witness ==
  /\ call.op = "compare" /\ call.pc = "tested"
  /\ call.line1 # call.line2
  /\ ~Blank(call.line1)
  /\ SameCore(call.line1, call.line2)
  /\ call.matches


\* The line without its white space: the characters of its tokens
NotSpace(c) == c \notin Whitespace
Tokens(line) == SelectSeq(line, NotSpace)

\* C21: at the threshold 0.85 a SEARCH line never matches a file line whose
\* stripped text differs from it in a significant token (another operator,
\* another identifier): the ratio 2*M/T of every such pair is below 0.85.
C21_TokenDifferenceRejected ==
  (call.op = "compare" /\ call.pc = "tested"
     /\ Tokens(call.line1) # Tokens(call.line2)) =>
        /\ call.match_ratio.num * 100 < similarity_threshold * call.match_ratio.den
        /\ ~call.matches


\* ------------------------------------------------------------------------
\* The diff format of replace_in_file as the tool description gives it to the
\* LLM (ParseSpec)
\* ------------------------------------------------------------------------
\* A section of a block: its text on lines of its own, no line when the
\* text is empty ("To delete code: Use empty REPLACE section")
Section(text) == IF text = <<>> THEN <<>> ELSE text \o NL

\* One block: the SEARCH line, the SEARCH section, the ======= line, the
\* REPLACE section, the REPLACE line
Render(b) ==
  <<"<<<<<<< SEARCH", "\n">> \o Section(b[1]) \o <<"=======", "\n">> \o Section(b[2])
    \o <<">>>>>>> REPLACE">>
RECURSIVE RenderAll(_)
RenderAll(bs) ==
  IF bs = <<>> THEN <<>>
  ELSE Render(Head(bs)) \o (IF Tail(bs) = <<>> THEN <<>> ELSE NL \o RenderAll(Tail(bs)))

FormatTexts == { <<>>, <<"a">>, <<"b">>, <<"a", "\n", "b">> }
FormatBlocks == FormatTexts \X {<<>>, <<"c">>}

\* The LLM writes the blocks of a diff in the format of the tool description
WritesDiff ==
  /\ call.op = "none"
  /\ \E bs \in UNION {[1..k -> FormatBlocks] : k \in 1..MaxBlocks} :
       call' = [op |-> "parse", pc |-> "written", blocks |-> bs, diff |-> RenderAll(bs),
                parsed |-> [blocks |-> <<>>, error |-> "none"]]
  /\ UNCHANGED <<active, history, chat_files, caches, pending, queue, wproc, alive,
                 readers, pthread, phandle, lockStuck, rpc, stdin, pipe, worker, nspawn,
                 ngen, log, files, emacs>>

\* `parsed_blocks, parse_error = _parse_search_replace_blocks(diff_str)`
ParsesDiff ==
  /\ call.op = "parse" /\ call.pc = "written"
  /\ call' = [call EXCEPT !.pc = "parsed", !.parsed = parse_search_replace_blocks(call.diff)]
  /\ UNCHANGED <<active, history, chat_files, caches, pending, queue, wproc, alive,
                 readers, pthread, phandle, lockStuck, rpc, stdin, pipe, worker, nspawn,
                 ngen, log, files, emacs>>

\* C22: parsing is the inverse of rendering: for every sequence of blocks
\* whose texts hold no marker, the blocks with an empty REPLACE text
\* included, parsing the blocks rendered in the SEARCH / ======= / REPLACE
\* syntax gives the same blocks in the same order and no parse error.
C22_ParseInvertsRender ==
  (call.op = "parse" /\ call.pc = "parsed") =>
     /\ call.parsed.error = "none"
     /\ call.parsed.blocks = call.blocks


\* C23: whenever read_file returns its success result for a path, the path
\* is in chat_files and the session cache holds the content of the file,
\* for every path argument, one that resolves outside the session directory
\* included.
C23_ReadFileAddsToContext ==
  [][ (call.op = "none" /\ call'.op = "read_file" /\ call'.result = READ_OK) =>
        /\ InChat(call'.path, files'.chat_files)
        /\ call'.path \in files'.cached
    ]_vars

\* ------------------------------------------------------------------------
\* The file cache of a session, statement by statement (CacheSpec,
\* CacheRaceSpec): caches['mtimes'] and caches['contents'] for one file of the
\* session directory, the file on disk, and whoever else writes the file.
\* Session takes no lock; a thread is between two statements of a method
\* while another thread, or another program, acts.
\* ------------------------------------------------------------------------
CacheTexts == { <<"a">>, <<"b">> }
CacheThreads == {"rpc", "drain"}
NoKey == 0
IdleCall == [pc |-> "idle", fn |-> "none", m |-> 0, content |-> NoContent, m0 |-> 0,
             result |-> NoContent, chat |-> FALSE]
CacheCalls == call.th

\* Session.__init__ for a directory with the file in it
CacheOpens ==
  /\ files.op = "none"
  /\ call.op = "none"
  /\ \E disk \in CacheTexts :
       files' = [op |-> "cache", disk |-> disk, mtime |-> 1, mtimes |-> NoKey,
                 contents |-> NoContent, chat |-> FALSE]
  /\ call' = [op |-> "cache", th |-> [t \in CacheThreads |-> IdleCall]]
  /\ UNCHANGED <<active, history, chat_files, caches, pending, queue, wproc, alive,
                 readers, pthread, phandle, lockStuck, rpc, stdin, pipe, worker, nspawn,
                 ngen, log, emacs>>

\* Another program writes the file: its mtime changes
ExternalWrite ==
  /\ files.op = "cache"
  /\ files.mtime < MaxMtime
  /\ \E disk \in CacheTexts :
       files' = [files EXCEPT !.disk = disk, !.mtime = @ + 1]
  /\ UNCHANGED <<active, history, chat_files, caches, pending, queue, wproc, alive,
                 readers, pthread, phandle, lockStuck, rpc, stdin, pipe, worker, nspawn,
                 ngen, log, call, emacs>>

\* Another program deletes the file
ExternalDelete ==
  /\ files.op = "cache"
  /\ files.disk # Missing
  /\ files' = [files EXCEPT !.disk = Missing]
  /\ UNCHANGED <<active, history, chat_files, caches, pending, queue, wproc, alive,
                 readers, pthread, phandle, lockStuck, rpc, stdin, pipe, worker, nspawn,
                 ngen, log, call, emacs>>

\* `if rel in mtimes: del mtimes[rel]` and the same for contents
Forgotten(f) == [f EXCEPT !.mtimes = NoKey, !.contents = NoContent]

\* add_file_to_context up to its call of _update_file_cache(rel_filename)
AddChatFile(t) ==
  /\ files.op = "cache"
  /\ CacheCalls[t].pc = "idle"
  /\ files.disk # Missing
  /\ ~files.chat
  /\ files' = [files EXCEPT !.chat = TRUE]
  /\ call' = [call EXCEPT !.th[t] = [IdleCall EXCEPT !.pc = "stat", !.fn = "add",
                                                     !.m0 = files.mtime]]
  /\ UNCHANGED <<active, history, chat_files, caches, pending, queue, wproc, alive,
                 readers, pthread, phandle, lockStuck, rpc, stdin, pipe, worker, nspawn,
                 ngen, log, emacs>>

\* remove_file_from_context
RemoveChatFile(t) ==
  /\ files.op = "cache"
  /\ CacheCalls[t].pc = "idle"
  /\ files.chat
  /\ files' = [Forgotten(files) EXCEPT !.chat = FALSE]
  /\ UNCHANGED <<active, history, chat_files, caches, pending, queue, wproc, alive,
                 readers, pthread, phandle, lockStuck, rpc, stdin, pipe, worker, nspawn,
                 ngen, log, call, emacs>>

\* invalidate_cache, for the file or for the session
InvalidateCache(t) ==
  /\ files.op = "cache"
  /\ CacheCalls[t].pc = "idle"
  /\ files' = Forgotten(files)
  /\ UNCHANGED <<active, history, chat_files, caches, pending, queue, wproc, alive,
                 readers, pthread, phandle, lockStuck, rpc, stdin, pipe, worker, nspawn,
                 ngen, log, call, emacs>>

\* get_cached_content is entered: _update_file_cache(rel_path) is called
GetCachedContent(t) ==
  /\ files.op = "cache"
  /\ CacheCalls[t].pc = "idle"
  /\ call' = [call EXCEPT !.th[t] = [IdleCall EXCEPT !.pc = "stat", !.fn = "get",
                                                     !.m0 = files.mtime]]
  /\ UNCHANGED <<active, history, chat_files, caches, pending, queue, wproc, alive,
                 readers, pthread, phandle, lockStuck, rpc, stdin, pipe, worker, nspawn,
                 ngen, log, files, emacs>>

\* write_to_file: the content is written to the file, then
\* _update_file_cache(rel_path, content=content) is called
WriteToFile(t) ==
  /\ files.op = "cache"
  /\ CacheCalls[t].pc = "idle"
  /\ files.mtime < MaxMtime
  /\ \E content \in CacheTexts :
       /\ files' = [files EXCEPT !.disk = content, !.mtime = @ + 1]
       /\ call' = [call EXCEPT !.th[t] = [IdleCall EXCEPT !.pc = "stat", !.fn = "write",
                                                          !.content = content,
                                                          !.m0 = files.mtime + 1]]
  /\ UNCHANGED <<active, history, chat_files, caches, pending, queue, wproc, alive,
                 readers, pthread, phandle, lockStuck, rpc, stdin, pipe, worker, nspawn,
                 ngen, log, emacs>>

\* get_environment_details_string: `current_chat_files_set = set(
\* self.chat_files)`, chat_files holding other files as well
RenderStarts(t) ==
  /\ files.op = "cache"
  /\ CacheCalls[t].pc = "idle"
  /\ call' = [call EXCEPT !.th[t] = [IdleCall EXCEPT !.pc = "cleanup", !.fn = "render",
                                                     !.chat = files.chat]]
  /\ UNCHANGED <<active, history, chat_files, caches, pending, queue, wproc, alive,
                 readers, pthread, phandle, lockStuck, rpc, stdin, pipe, worker, nspawn,
                 ngen, log, files, emacs>>

\* get_environment_details_string: the entries of files that are not in the
\* set are deleted
RenderCleans(t) ==
  /\ files.op = "cache"
  /\ CacheCalls[t].pc = "cleanup"
  /\ files' = IF files.mtimes # NoKey /\ ~CacheCalls[t].chat THEN Forgotten(files) ELSE files
  /\ call' = [call EXCEPT !.th[t] = IdleCall]
  /\ UNCHANGED <<active, history, chat_files, caches, pending, queue, wproc, alive,
                 readers, pthread, phandle, lockStuck, rpc, stdin, pipe, worker, nspawn,
                 ngen, log, emacs>>

\* The thread leaves _update_file_cache: get_cached_content goes on to read
\* the content map when the value is True, every other caller returns
Leaves(c, value) ==
  IF c.fn = "get" /\ value THEN [c EXCEPT !.pc = "ret"]
  ELSE [IdleCall EXCEPT !.fn = c.fn]

\* `if last_mtime is None or current_mtime != last_mtime`
IsStale(last_mtime, current_mtime) ==
  last_mtime = NoKey \/ current_mtime # last_mtime

\* _update_file_cache: get_mtime and what follows it up to the read
CacheStats(t) ==
  LET c == CacheCalls[t] IN
  /\ files.op = "cache"
  /\ c.pc = "stat"
  /\ IF files.disk = Missing
     THEN /\ files' = Forgotten(files)
          /\ call' = [call EXCEPT !.th[t] = Leaves(c, FALSE)]
     ELSE /\ files' = files
          /\ call' = [call EXCEPT !.th[t] =
                        IF c.content # NoContent
                        THEN [c EXCEPT !.pc = "store_mtime", !.m = files.mtime]
                        ELSE IF IsStale(files.mtimes, files.mtime)
                        THEN [c EXCEPT !.pc = "read", !.m = files.mtime]
                        ELSE Leaves(c, TRUE)]
  /\ UNCHANGED <<active, history, chat_files, caches, pending, queue, wproc, alive,
                 readers, pthread, phandle, lockStuck, rpc, stdin, pipe, worker, nspawn,
                 ngen, log, emacs>>

\* _update_file_cache: read_file_content(abs_path); its exception has both
\* entries deleted
CacheReads(t) ==
  LET c == CacheCalls[t] IN
  /\ files.op = "cache"
  /\ c.pc = "read"
  /\ IF files.disk = Missing
     THEN /\ files' = Forgotten(files)
          /\ call' = [call EXCEPT !.th[t] = Leaves(c, FALSE)]
     ELSE /\ files' = files
          /\ call' = [call EXCEPT !.th[t] = [c EXCEPT !.pc = "store_mtime",
                                                      !.content = files.disk]]
  /\ UNCHANGED <<active, history, chat_files, caches, pending, queue, wproc, alive,
                 readers, pthread, phandle, lockStuck, rpc, stdin, pipe, worker, nspawn,
                 ngen, log, emacs>>

\* `self.caches['mtimes'][rel_path] = current_mtime`
CacheStoresMtime(t) ==
  LET c == CacheCalls[t] IN
  /\ files.op = "cache"
  /\ c.pc = "store_mtime"
  /\ files' = [files EXCEPT !.mtimes = c.m]
  /\ call' = [call EXCEPT !.th[t].pc = "store_content"]
  /\ UNCHANGED <<active, history, chat_files, caches, pending, queue, wproc, alive,
                 readers, pthread, phandle, lockStuck, rpc, stdin, pipe, worker, nspawn,
                 ngen, log, emacs>>

\* `self.caches['contents'][rel_path] = content`, and `return True`
CacheStoresContent(t) ==
  LET c == CacheCalls[t] IN
  /\ files.op = "cache"
  /\ c.pc = "store_content"
  /\ files' = [files EXCEPT !.contents = c.content]
  /\ call' = [call EXCEPT !.th[t] = Leaves(c, TRUE)]
  /\ UNCHANGED <<active, history, chat_files, caches, pending, queue, wproc, alive,
                 readers, pthread, phandle, lockStuck, rpc, stdin, pipe, worker, nspawn,
                 ngen, log, emacs>>

\* get_cached_content: `return self.caches['contents'].get(rel_path)`
CachedContentReturns(t) ==
  LET c == CacheCalls[t] IN
  /\ files.op = "cache"
  /\ c.pc = "ret"
  /\ call' = [call EXCEPT !.th[t] = [IdleCall EXCEPT !.fn = "got", !.m0 = c.m0,
                                                     !.result = files.contents]]
  /\ UNCHANGED <<active, history, chat_files, caches, pending, queue, wproc, alive,
                 readers, pthread, phandle, lockStuck, rpc, stdin, pipe, worker, nspawn,
                 ngen, log, files, emacs>>

\* The Session methods the queue processor thread runs for the tools and for
\* the environment details
DrainCalls(t) ==
  \/ GetCachedContent(t)
  \/ WriteToFile(t)
  \/ InvalidateCache(t)
  \/ RenderStarts(t)
  \/ RenderCleans(t)

\* The Session methods a frontend RPC thread runs
RpcCalls(t) ==
  \/ AddChatFile(t)
  \/ RemoveChatFile(t)

\* The statements of _update_file_cache and of get_cached_content
CacheSteps(t) ==
  \/ CacheStats(t)
  \/ CacheReads(t)
  \/ CacheStoresMtime(t)
  \/ CacheStoresContent(t)
  \/ CachedContentReturns(t)

\* C37: the file cache never serves content across an mtime change:
\* get_cached_content, called for a file that exists and that nobody writes
\* while the call runs, returns the content the file has at its current mtime.
C37_CachedContentIsCurrent ==
  files.op = "cache" =>
    \A t \in CacheThreads :
      (/\ CacheCalls[t].fn = "got"
       /\ CacheCalls[t].m0 = files.mtime
       /\ files.disk # Missing)
      => CacheCalls[t].result = files.disk

\* No thread is inside a method of the session
NoCallRunning == \A t \in CacheThreads : CacheCalls[t].pc = "idle"

\* C40: the mtime map and the content map of the file cache have the same
\* key set: once the methods of the session have returned, no file has an
\* mtime but no content, or content but no mtime.
C40_SameKeys ==
  (files.op = "cache" /\ NoCallRunning) =>
    ((files.mtimes = NoKey) <=> (files.contents = NoContent))

\* ------------------------------------------------------------------------
\* History truncation (TruncSpec): the interaction history as the prompt of
\* the user, the Worker's assistant messages and the tool results build it,
\* and _truncate_history applied to it when the prompt of a turn is prepared.
\* A message is its role, the length of its content in characters (0 for
\* None and for ""), the ids of its tool_calls and its tool_call_id.
\* ------------------------------------------------------------------------
max_history_tokens == 8000
min_history_messages == 3
UserLens == {4000, 36000}
AssistantLens == {4000, 36000}
ToolLens == {4000, 20000}

\* _count_tokens without a tokenizer: 0 for no text, else
\* max(1, len(text) // 4)
count_tokens(len) ==
  IF len = 0 THEN 0
  ELSE IF len \div 4 > 1 THEN len \div 4 ELSE 1

\* list.insert(1, msg)
InsertAfterFirst(truncated, msg) == <<truncated[1]>> \o <<msg>> \o Tail(truncated)

\* (mutant) the token limit stops the loop whatever has been kept
BelowMinimum_Never(truncated) == FALSE

\* `if len(truncated) >= self.min_history_messages: break`, negated
BelowMinimum(truncated) == Len(truncated) < min_history_messages

\* _truncate_history: `for msg in reversed(history[1:])`, messages[i] being
\* the message of this iteration
RECURSIVE TruncateFrom(_, _, _, _)
TruncateFrom(messages, i, truncated, current_tokens) ==
  IF i < 2 THEN truncated
  ELSE LET msg_tokens == count_tokens(messages[i].len) IN
       IF current_tokens + msg_tokens > max_history_tokens /\ ~BelowMinimum(truncated)
       THEN truncated
       ELSE TruncateFrom(messages, i - 1, InsertAfterFirst(truncated, messages[i]),
                         current_tokens + msg_tokens)

\* _truncate_history
truncate_history(messages) ==
  IF messages = <<>> THEN <<>>
  ELSE TruncateFrom(messages, Len(messages), <<messages[1]>>, count_tokens(messages[1].len))

\* An Agents object and an empty history
TruncOpens ==
  /\ call.op = "none"
  /\ files.op = "none"
  /\ call' = [op |-> "trunc", history |-> <<>>, waiting |-> <<>>, truncated |-> <<>>,
              done |-> FALSE]
  /\ UNCHANGED <<active, history, chat_files, caches, pending, queue, wproc, alive,
                 readers, pthread, phandle, lockStuck, rpc, stdin, pipe, worker, nspawn,
                 ngen, log, files, emacs>>

\* emigo_send: the prompt is appended to the history of the session
UserPrompt ==
  /\ call.op = "trunc"
  /\ call.waiting = <<>>
  /\ Len(call.history) < MaxHistory
  /\ \E len \in UserLens :
       call' = [call EXCEPT !.history = Append(@, [role |-> "user", len |-> len,
                                                   calls |-> {}, id |-> 0]),
                            !.truncated = <<>>, !.done = FALSE]
  /\ UNCHANGED <<active, history, chat_files, caches, pending, queue, wproc, alive,
                 readers, pthread, phandle, lockStuck, rpc, stdin, pipe, worker, nspawn,
                 ngen, log, files, emacs>>

\* handle_interaction_request: the assistant message of a turn, with text,
\* or with tool_calls and text or None
AssistantMessage ==
  /\ call.op = "trunc"
  /\ call.history # <<>>
  /\ call.waiting = <<>>
  /\ Len(call.history) < MaxHistory
  /\ \E len \in AssistantLens \union {0}, n \in 0..2 :
       LET at == 10 * (Len(call.history) + 1)
           ids == [k \in 1..n |-> at + k]
       IN /\ len # 0 \/ n # 0
          /\ Len(call.history) + 1 + n <= MaxHistory
          /\ call' = [call EXCEPT !.history = Append(@, [role |-> "assistant", len |-> len,
                                                         calls |-> {ids[k] : k \in 1..n},
                                                         id |-> 0]),
                                  !.waiting = ids,
                                  !.truncated = <<>>, !.done = FALSE]
  /\ UNCHANGED <<active, history, chat_files, caches, pending, queue, wproc, alive,
                 readers, pthread, phandle, lockStuck, rpc, stdin, pipe, worker, nspawn,
                 ngen, log, files, emacs>>

\* handle_interaction_request: the result of a tool call, with its
\* tool_call_id, is added to the history
ToolMessage ==
  /\ call.op = "trunc"
  /\ call.waiting # <<>>
  /\ \E len \in ToolLens :
       call' = [call EXCEPT !.history = Append(@, [role |-> "tool", len |-> len,
                                                   calls |-> {}, id |-> Head(call.waiting)]),
                            !.waiting = Tail(@),
                            !.truncated = <<>>, !.done = FALSE]
  /\ UNCHANGED <<active, history, chat_files, caches, pending, queue, wproc, alive,
                 readers, pthread, phandle, lockStuck, rpc, stdin, pipe, worker, nspawn,
                 ngen, log, files, emacs>>

\* The prompt of a turn is prepared: the history goes through
\* _truncate_history
PrepareLlmPrompt ==
  /\ call.op = "trunc"
  /\ call.waiting = <<>>
  /\ ~call.done
  /\ call' = [call EXCEPT !.truncated = truncate_history(call.history), !.done = TRUE]
  /\ UNCHANGED <<active, history, chat_files, caches, pending, queue, wproc, alive,
                 readers, pthread, phandle, lockStuck, rpc, stdin, pipe, worker, nspawn,
                 ngen, log, files, emacs>>

\* The token count of a list of messages
RECURSIVE TotalTokens(_)
TotalTokens(msgs) ==
  IF msgs = <<>> THEN 0 ELSE count_tokens(Head(msgs).len) + TotalTokens(Tail(msgs))

\* A truncation has been made of the history as it is
Truncated == call.op = "trunc" /\ call.done

\* C38: history truncation returns the first message followed by a
\* contiguous suffix of the others in their order; the first message is
\* retained, at least min(3, length) messages are retained, and the retained
\* messages have at most max_history_tokens tokens or are at most
\* min_history_messages.
C38_FirstPlusSuffix ==
  Truncated =>
    LET h == call.history
        r == call.truncated
    IN IF h = <<>> THEN r = <<>>
       ELSE /\ \E k \in 2..(Len(h) + 1) : r = <<h[1]>> \o SubSeq(h, k, Len(h))
            /\ Len(r) >= (IF Len(h) < 3 THEN Len(h) ELSE 3)
            /\ TotalTokens(r) <= 8000 \/ Len(r) <= 3

\* A history loses messages to the token limit and keeps more than three
C38_Witness ==
  /\ Truncated
  /\ Len(call.truncated) < Len(call.history)
  /\ Len(call.truncated) > 3
  /\ TotalTokens(call.history) > 8000

\* C39: history truncation never splits a tool-call group: a Tool message is
\* in the list it returns only if the Assistant message carrying the
\* tool_call with the same id is in the list too.
C39_GroupsKeptWhole ==
  Truncated =>
    \A i \in DOMAIN call.truncated :
      call.truncated[i].role = "tool" =>
        \E j \in DOMAIN call.truncated :
          /\ call.truncated[j].role = "assistant"
          /\ call.truncated[i].id \in call.truncated[j].calls

\* ------------------------------------------------------------------------
\* Tool requests and their results (FlowSpec)
\* ------------------------------------------------------------------------
\* The handler of a tool_request of the running Worker returns in this step
ToolHandlerReturns(i) ==
  /\ pthread[i].st = "tool"
  /\ pthread'[i].st = "idle"
  /\ pthread[i].msg.pid = wproc

\* The Worker ends its interaction by itself in this step (it writes finished)
WorkerFinishes ==
  /\ worker.pc \in {"turn", "waittool", "waitenv"}
  /\ worker'.pc = "main"
  /\ wproc \in alive'

\* The Worker leaves the blocking wait of request_tool_execution in this step
WorkerLeavesToolWait ==
  /\ worker.pc = "waittool"
  /\ worker'.pc # "waittool"
  /\ wproc \in alive'

\* C2: every tool_request of the Worker is answered by one tool_result with the
\* same request_id and never by a second one; when the Worker writes finished,
\* every tool_request of the interaction has had its tool_result delivered; and
\* the Worker leaves its blocking wait only on reading the tool_result whose
\* request_id is the one it sent.
C2_OneResultPerRequest ==
  [][ /\ \A i \in Pids : ToolHandlerReturns(i) =>
            /\ Len(stdin') = Len(stdin) + 1
            /\ Last(stdin').type = "tool_result"
            /\ Last(stdin').rid = pthread[i].msg.rid
      /\ ~log'.dup
      /\ WorkerFinishes => worker.sent \subseteq log.delivered
      /\ WorkerLeavesToolWait =>
            /\ stdin # <<>>
            /\ Head(stdin).type = "tool_result"
            /\ Head(stdin).rid = worker.rid
            /\ worker.rid \in log.delivered
    ]_vars

\* C2 witness: a finished line of an interaction whose tool_request was answered
\* waits in the queue
C2_Witness ==
  /\ log.delivered # {}
  /\ \E k \in 1..Len(queue) :
       /\ queue[k].type = "finished"
       /\ \E j \in 1..Len(queue[k].hist) :
            /\ queue[k].hist[j].role = "tool"
            /\ Rid(queue[k].gen, queue[k].hist[j].tool_call_id.turn, "tool",
                   queue[k].hist[j].tool_call_id.index + 1) \in log.delivered

\* C10: once the completion tool_result of the latest prompt has been written
\* to the Worker, active_session is absent, and it stays absent until a newer
\* prompt is submitted, whether or not the Worker's finished has been processed:
\* a prompt arriving then is accepted without a cancel prompt.
C10_EarlyClearBeforeResult ==
  ngen \in log.completed => active = NoSession

\* C10 witness: the completion tool_result has been written and the Worker has
\* not read it yet, so its finished is still to come
C10_Witness ==
  /\ ngen \in log.completed
  /\ worker.pc = "waittool"
  /\ worker.gen = ngen
  /\ stdin # <<>>

\* The message has the prompt of interaction g in it
HoldsPrompt(h, g) == \E k \in 1..Len(h) : h[k] = UserMsg(g)

\* C24: a finished message of an earlier interaction, ended through the
\* early clear of attempt_completion, never disturbs a later interaction
\* started on the same session before the message was processed: processing
\* it leaves active_session set for the later interaction and leaves that
\* interaction's user prompt in the session history.
C24_LateFinishedHarmless ==
  [][ ( /\ queue # <<>>
        /\ Head(queue).type = "finished"
        /\ queue' = Tail(queue)
        /\ Head(queue).gen \in log.completed
        /\ Head(queue).gen < ngen
        /\ active = Head(queue).sess
        /\ HoldsPrompt(history[active], ngen) ) =>
          /\ active' = active
          /\ HoldsPrompt(history'[active], ngen)
    ]_vars


\* C25: no interaction_request written to the Worker's stdin is lost: in
\* every interleaving of the frontend RPC threads with the queue processor
\* thread, the Worker's blocking waits for a tool_result or for a
\* get_environment_details_response never read and drop an
\* interaction_request.
C25_NoRequestDropped ==
  [][ ( /\ worker.pc \in {"waittool", "waitenv"}
        /\ stdin # <<>>
        /\ stdin' = Tail(stdin) ) =>
          Head(stdin).type # "interaction_request"
    ]_vars


\* The processor threads that take lines from worker_output_queue, now or as
\* soon as the tool call they are in returns
DrainThreads == {i \in Pids : pthread[i].st \in {"idle", "tool"}}

\* C26: whenever a Worker process is running, exactly one queue processor
\* thread is consuming worker_output_queue: never none and never two, after
\* any number of cancel-and-restart cycles and Worker exits
C26_OneDrainThread == WorkerRunning => Cardinality(DrainThreads) = 1


\* C27: _send_to_worker returns on every call: no call of it is left waiting
\* for llm_worker_lock, which its own thread holds, when it restarts a Worker
\* that is not running or stops one whose stdin cannot be written
C27_SendToWorkerReturns == ~lockStuck


\* handle_interaction_request has returned or raised in this step: the Worker
\* is back in main() and its process lives on
RequestOf == IF worker.pc = "main" THEN Head(stdin).gen ELSE worker.gen
HandlerLeft ==
  /\ WorkerRunning
  /\ wproc' = wproc
  /\ wproc \in alive'
  /\ worker'.pc = "main"
  /\ \/ worker.pc # "main"
     \/ /\ stdin # <<>>
        /\ Head(stdin).type = "interaction_request"
        /\ stdin' = Tail(stdin)

\* The finished lines for prompt g among the lines written in this step
FinishedWritten(g) ==
  {k \in (Len(queue) + 1)..Len(queue') :
     queue'[k].type = "finished" /\ queue'[k].gen = g}

\* C28: every interaction_request the Worker reads produces exactly one
\* finished message: no path through handle_interaction_request returns or
\* raises without having written it
C28_AlwaysFinished ==
  [][HandlerLeft => Cardinality(FinishedWritten(RequestOf)) = 1]_vars


\* The results that end an interaction: completion, denial, tool error
EndSentinels == {COMPLETION_SIGNALLED, TOOL_DENIED, TOOL_ERROR}

\* The Worker reads the tool_result it waits for and the result is a sentinel
ReadsEndSentinel ==
  /\ WorkerRunning
  /\ worker.pc = "waittool"
  /\ stdin # <<>>
  /\ stdin' = Tail(stdin)
  /\ Head(stdin).type = "tool_result"
  /\ Head(stdin).rid = worker.rid
  /\ Head(stdin).result \in EndSentinels

\* The Worker has recorded a sentinel and has not yet sent finished
Terminating(w) ==
  /\ w.pc \in {"ended", "done"}
  /\ w.results # <<>>
  /\ w.results[Len(w.results)].content \in EndSentinels

Holds(h, msg) == \E n \in 1..Len(h) : h[n] = msg

\* C31: a tool_result that is the completion sentinel, the denial sentinel or
\* a tool error is recorded as a Tool message with the id of its tool call;
\* from then on the interaction sends no tool_request and no
\* get_environment_details_request, starts no further turn, and ends with a
\* finished whose final_history holds that Tool message
C31_SentinelEndsInteraction ==
  [][ /\ ReadsEndSentinel =>
           /\ Terminating(worker')
           /\ Holds(worker'.hist, ToolMsg(worker.gen, worker.calls[worker.k].id,
                                          Head(stdin).result))
      /\ Terminating(worker) =>
           /\ \A k \in (Len(queue) + 1)..Len(queue') :
                 queue'[k].type \notin {"tool_request", "get_environment_details_request"}
           /\ \/ /\ Terminating(worker')
                 /\ worker'.hist = worker.hist
              \/ /\ worker' = IdleWorker
                 /\ queue'[Len(queue')].type = "finished"
                 /\ queue'[Len(queue')].hasHist
                 /\ Holds(queue'[Len(queue')].hist, worker.results[Len(worker.results)])
    ]_vars

\* C31 witness: a finished line is queued whose final_history holds a Tool
\* message with a sentinel as content
C31_Witness ==
  \E k \in 1..Len(queue) :
    /\ queue[k].type = "finished"
    /\ \E n \in 1..Len(queue[k].hist) :
         /\ queue[k].hist[n].role = "tool"
         /\ queue[k].hist[n].content \in EndSentinels


\* The arguments text is a JSON object: the empty text or "{}"
IsObject(args) == args = <<>> \/ args = <<"{}">>

\* The fragments of the current turn for which a tool_request has been sent
RequestedFrags(w) ==
  {n \in 1..Len(w.frags) :
     \E k \in 1..Len(w.calls) :
        /\ w.calls[k].id = w.frags[n].id
        /\ Rid(w.gen, w.turn, "tool", k) \in w.sent}

\* A tool_request is written in this step
SendsToolRequest ==
  \E k \in (Len(queue) + 1)..Len(queue') : queue'[k].type = "tool_request"

\* The tool calls of the turn are over
TurnOver(w) == w.pc \in {"waitenv", "ended", "done"}

\* A fragment is requested only if its arguments are an object, after the
\* stream of its turn has ended, and after every object fragment before it
SentInOrder ==
  /\ \A n \in RequestedFrags(worker') : IsObject(worker'.frags[n].args)
  /\ SendsToolRequest =>
       /\ worker.pc = "exec"
       /\ worker'.frags = worker.frags
       /\ \E n \in 1..Len(worker.frags) :
            /\ RequestedFrags(worker') = RequestedFrags(worker) \cup {n}
            /\ n \notin RequestedFrags(worker)
            /\ \A j \in 1..(n - 1) :
                 IsObject(worker.frags[j].args) => j \in RequestedFrags(worker)

AllObjectsSent(w) ==
  \A n \in 1..Len(w.frags) : IsObject(w.frags[n].args) => n \in RequestedFrags(w)

\* C32 as stated: a fragment whose arguments are malformed or not an object
\* is never sent as a tool_request, and every other fragment of the turn is
\* sent, in stream-index order, after the stream of the turn has ended
C32_EveryObjectSent ==
  [][SentInOrder /\ (TurnOver(worker') => AllObjectsSent(worker'))]_vars

\* C32, amended: as above, but the fragments after a call whose result ended
\* the interaction, and the fragments of a stream that failed, are not sent
C32_ObjectsSentUnlessEnded ==
  [][ /\ SentInOrder
      /\ (TurnOver(worker') /\ ~worker'.err /\ ~Terminating(worker'))
           => AllObjectsSent(worker')
    ]_vars

\* C32 witness: the turn is over, it had a fragment with malformed or
\* non-object arguments, and a later fragment of it has been requested
C32_Witness ==
  /\ TurnOver(worker)
  /\ \E n \in 1..Len(worker.frags) : \E j \in RequestedFrags(worker) :
       n < j /\ ~IsObject(worker.frags[n].args)


\* emigo_send returns in this step without a line written to the Worker
StopsBeforeRequest ==
  \E t \in RpcThreads :
    /\ rpc[t].pc = "set"
    /\ rpc'[t] = IdleRpc
    /\ stdin' = stdin

\* C33: when emigo_send stops before an interaction_request is sent (the
\* session path is not a directory, the frontend configuration cannot be
\* read, or no model is set), active_session is absent afterwards and the
\* session history is as it was before the call
C33_RejectedPromptLeavesNoTrace ==
  [][StopsBeforeRequest => (active' = NoSession /\ history' = history)]_vars


\* ------------------------------------------------------------------------
\* One interaction at a time (RaceSpec)
\* ------------------------------------------------------------------------
\* C4: at most one interaction is in flight: no interaction_request is sent
\* while another interaction that has not finished, errored, signalled
\* completion or been cancelled still owns the Worker.
C4_AtMostOneInFlight == Cardinality(log.owners) <= 1

\* ------------------------------------------------------------------------
\* Cancel-and-restart (CancelSpec)
\* ------------------------------------------------------------------------
\* C5: after a cancel-and-restart has returned, no line of the killed Worker is
\* dispatched by a processor thread.
C5_NoStaleDispatch == log.stale = {}

\* cancel_llm_interaction, called for the active session, returns in this step
CancelReturns(t) ==
  /\ rpc[t].pc = "cstop"
  /\ rpc'[t].pc \in {"idle", "set"}
  /\ rpc[t].target \in Sessions

\* What C6 states of the return apart from the history
CancelLeavesClean(s) ==
  /\ active' = NoSession
  /\ pending' = {}
  /\ caches'[s] = [contents |-> FALSE, repomap |-> FALSE]
  /\ wproc' # 0
  /\ wproc' \in alive'

ExitHandled ==
  /\ wproc \notin alive
  /\ wproc \notin readers
  /\ queue = <<>>
  /\ \A t \in RpcThreads : rpc[t].pc = "idle"
  /\ \A i \in Pids : pthread[i].st # "tool"

\* C7: when the Worker has exited unexpectedly and the Orchestrator has done
\* all it does about it without a frontend request, active_session is absent.
C7_ExitClearsActive == ExitHandled => active = NoSession

\* ------------------------------------------------------------------------
\* Session history and stream markers (WorkerSpec)
\* ------------------------------------------------------------------------
\* An assistant message of h with K tool_calls is followed by K tool messages
\* whose tool_call_id are the ids of the calls, in order
Paired(h) ==
  \A n \in 1..Len(h) :
    LET K == Len(h[n].tool_calls) IN
    (h[n].role = "assistant" /\ K > 0) =>
      /\ n + K <= Len(h)
      /\ \A j \in 1..K :
           /\ h[n + j].role = "tool"
           /\ h[n + j].tool_call_id = h[n].tool_calls[j]

\* C1: in every session history an assistant message carrying K tool_calls is
\* followed by K tool messages with the ids of those calls, in order.
C1_ToolCallsPaired == \A s \in Sessions : Paired(history[s])

\* The places of the markers of one role and tool id in the stream
Places(out, role, id) ==
  {n \in 1..Len(out) : out[n].role = role /\ out[n].tool_id = id}

\* The tool ids announced in the stream
Announced(out) == {out[n].tool_id : n \in {k \in 1..Len(out) : out[k].role = "tool_json"}}

\* C3: when an interaction whose LLM stream did not abort is about to send
\* finished, every tool id announced in any of its turns has had one tool_json
\* start marker, then its tool_json_args fragments, then one tool_json_end.
C3_MarkersClosed ==
  (worker.pc = "done" /\ ~worker.err) =>
    \A id \in Announced(worker.out) :
      /\ Cardinality(Places(worker.out, "tool_json", id)) = 1
      /\ Cardinality(Places(worker.out, "tool_json_end", id)) = 1
      /\ \A a \in Places(worker.out, "tool_json_args", id) :
           /\ \A b \in Places(worker.out, "tool_json", id) : b < a
           /\ \A e \in Places(worker.out, "tool_json_end", id) : a < e

\* Every prompt submitted has been served to its end and nothing is in flight
AllEnded ==
  /\ ngen > 0
  /\ active = NoSession
  /\ \A t \in RpcThreads : rpc[t].pc = "idle"
  /\ \A i \in Pids : pthread[i].st # "tool"
  /\ queue = <<>>
  /\ stdin = <<>>
  /\ worker.pc = "main"

\* C8: once every interaction has ended, whatever its status, no session
\* history ends in an unanswered user message.
C8_TailAnswered ==
  AllEnded => \A s \in Sessions : history[s] = <<>> \/ Last(history[s]).role # "user"

ErrorStatuses == {"llm_error", "critical_error"}

\* A processor thread dispatches a finished line of an errored interaction
DispatchesErrorFinished ==
  /\ queue # <<>>
  /\ Head(queue).type = "finished"
  /\ Head(queue).status \in ErrorStatuses
  /\ Len(queue') < Len(queue)

\* C9: a finished message with status llm_error or critical_error carries no
\* final_history, the Orchestrator leaves the session history as it is when it
\* dispatches one, and no assistant or tool message of a prompt that ended so
\* is ever in a session history.
C9_ErrorKeepsHistory ==
  [][ /\ \A k \in 1..Len(queue') :
            (queue'[k].type = "finished" /\ queue'[k].status \in ErrorStatuses) =>
               (~queue'[k].hasHist /\ queue'[k].hist = <<>>)
      /\ DispatchesErrorFinished => history' = history
      /\ \A s \in Sessions : \A k \in 1..Len(history'[s]) :
            history'[s][k].role # "user" => history'[s][k].gen \notin log'.failed
    ]_vars

\* C9 witness: the finished of a prompt that ended with an error has been
\* dispatched, and a later prompt has been answered in the same history
C9_Witness ==
  \E s \in Sessions : \E g \in log.failed :
    /\ \E k \in 1..Len(history[s]) : history[s][k] = UserMsg(g)
    /\ \E k \in 1..Len(history[s]) :
         history[s][k].role = "assistant" /\ history[s][k].gen > g
    /\ queue = <<>>
    /\ worker.pc = "main"

\* ------------------------------------------------------------------------
\* Tool approval (FlowSpec)
\* ------------------------------------------------------------------------
\* _handle_tool_request_from_worker returns to thread i in this step
ToolHandled(i) == pthread[i].st = "idle" /\ pthread'[i].st = "tool"

\* C11: the tool function of a tool of the approval list is invoked only after
\* the approval call of that request returned true; on a denial the tool
\* function is not invoked, nothing of the session changes and the result sent
\* to the Worker is the denial sentinel; a tool that is not on the list is
\* never asked about.
C11_ApprovalGuardsTool ==
  [][ /\ \A i \in Pids : ToolHandled(i) =>
            LET th == pthread'[i] IN
            /\ (th.msg.tool \in require_approval_list /\ th.invoked) =>
                  th.approval = "approved"
            /\ th.approval = "denied" =>
                  /\ ~th.invoked
                  /\ th.result = TOOL_DENIED
                  /\ caches' = caches /\ chat_files' = chat_files
            /\ th.msg.tool \notin require_approval_list => th.approval = "unasked"
      /\ \A i \in Pids : (ToolHandlerReturns(i) /\ pthread[i].approval = "denied") =>
            Last(stdin').result = TOOL_DENIED
    ]_vars

\* C11 witness: the denial of a write_to_file request has been sent to the
\* Worker, which still waits for it
C11_Witness ==
  /\ stdin # <<>>
  /\ Last(stdin).type = "tool_result"
  /\ Last(stdin).result = TOOL_DENIED
  /\ worker.pc = "waittool"
  /\ \E k \in 1..Len(worker.hist) : worker.hist[k].role = "assistant"
  /\ caches[worker.sess].contents = FALSE

\* ------------------------------------------------------------------------
\* The system
\* ------------------------------------------------------------------------
\* The frontend thread of the specifications with one frontend request at a time
OneThread == {"t1"}

\* _process_worker_queue: one line of the queue is dispatched
Processor ==
  \/ \E i \in Pids : ProcStream(i)
  \/ \E i \in Pids : ProcToolRequest(i)
  \/ \E i \in Pids : ProcToolSend(i)
  \/ \E i \in Pids : ProcFinished(i)
  \/ \E i \in Pids : ProcError(i)
  \/ \E i \in Pids : ProcEnvRequest(i)

\* llm_worker.py: main loop and handle_interaction_request
Worker ==
  \/ WorkerMain
  \/ WorkerTurnText
  \/ WorkerTurnTool
  \/ WorkerTurnError
  \/ WorkerToolResult
  \/ WorkerEnvResponse

\* emigo_send on the threads T, without a cancellation
Sends(T) ==
  \/ \E t \in T, s \in Sessions : SendCheck(t, s, "send")
  \/ \E t \in T : SendDeclined(t)
  \/ \E t \in T : SendPrompt(t)

\* emigo_send_revised_history on the threads T
Revisions(T) ==
  \/ \E t \in T, s \in Sessions : SendCheck(t, s, "revised")
  \/ \E t \in T : SendRevised(t)

\* cancel_llm_interaction on the threads T
Cancels(T) ==
  \/ \E t \in T : SendConfirmed(t)
  \/ \E t \in T, s \in Sessions : CancelStart(t, s)
  \/ \E t \in T : CancelFinish(t)

\* What follows the death of a Worker: its reader thread moves what is left
\* of its stdout and queues the sentinel, on which a processor thread exits
Shutdown ==
  \/ \E p \in Pids : ReaderRead(p)
  \/ \E p \in Pids : ReaderEOF(p)
  \/ \E i \in Pids : ProcSentinel(i)

\* Prompts of one frontend thread, served without cancellation or crash
NextFlow == Sends(OneThread) \/ Processor \/ Worker
FlowSpec == Init /\ [][NextFlow]_vars

\* Prompts of one frontend thread, some of which emigo_send gives up before
\* it writes to the Worker
NextSubmit ==
  \/ Sends(OneThread)
  \/ \E t \in OneThread : SendInvalidSession(t)
  \/ \E t \in OneThread : SendNoModel(t)
  \/ Processor
  \/ Worker
SubmitSpec == Init /\ [][NextSubmit]_vars

\* Prompts and revised histories of two frontend threads
NextRace == Sends(RpcThreads) \/ Revisions(RpcThreads) \/ Processor \/ Worker
RaceSpec == Init /\ [][NextRace]_vars

\* Prompts and cancellations of one frontend thread
NextCancel == Sends(OneThread) \/ Cancels(OneThread) \/ Shutdown \/ Processor \/ Worker
CancelSpec == Init /\ [][NextCancel]_vars

\* Prompts and cancellations of one frontend thread, and the Worker up to the
\* construction of its client
NextClient ==
  \/ Sends(OneThread)
  \/ Cancels(OneThread)
  \/ Shutdown
  \/ \E i \in Pids : ProcError(i)
  \/ WorkerMainRaises
ClientSpec == Init /\ [][NextClient]_vars

\* Every request of one frontend thread, and a Worker that may exit
Next ==
  \/ Sends(OneThread)
  \/ Revisions(OneThread)
  \/ Cancels(OneThread)
  \/ \E t \in OneThread : CancelBlocked(t)
  \/ Shutdown
  \/ Processor
  \/ Worker
  \/ WorkerCrash

Spec == Init /\ [][Next]_vars

\* handle_interaction_request delta by delta
Agent ==
  \/ WorkerMain
  \/ StreamText
  \/ StreamToolCall
  \/ StreamToolArgs
  \/ StreamError
  \/ ExtractToolCalls
  \/ RequestTool
  \/ ReadToolResult
  \/ ReadEnvResponse
  \/ SendEndMarkers
  \/ SendFinished
  \/ CriticalError

\* Prompts of one frontend thread, served by the Worker delta by delta
NextWorker == Sends(OneThread) \/ Processor \/ Agent
WorkerSpec == Init /\ [][NextWorker]_vars

\* The turn loop of one interaction
NextLoop == InteractionArrives \/ CallsLlm \/ RunsTools \/ LoopFinishes
LoopSpec == Init /\ [][NextLoop]_vars

\* The chat files of one session
NextFiles == SessionOpens \/ FileDeleted \/ AddFile \/ RemoveFile \/ ReadFile
FilesSpec == Init /\ [][NextFiles]_vars

\* add_file_to_context on a frontend RPC thread and on the processor thread
NextAddRace ==
  \/ SessionOpens
  \/ \E t \in AddThreads : AddChecks(t)
  \/ \E t \in AddThreads : AddAppends(t)
AddRaceSpec == Init /\ [][NextAddRace]_vars

\* The file cache used by the queue processor thread alone, the file being
\* written by other programs as well
NextCache ==
  \/ CacheOpens
  \/ ExternalWrite
  \/ ExternalDelete
  \/ DrainCalls("drain")
  \/ RpcCalls("drain")
  \/ CacheSteps("drain")
CacheSpec == Init /\ [][NextCache]_vars

\* The file cache used by the queue processor thread and a frontend RPC thread
NextCacheRace ==
  \/ CacheOpens
  \/ ExternalDelete
  \/ DrainCalls("drain")
  \/ RpcCalls("rpc")
  \/ CacheSteps("drain")
  \/ CacheSteps("rpc")
CacheRaceSpec == Init /\ [][NextCacheRace]_vars

\* Histories and their truncation
NextTrunc ==
  \/ TruncOpens
  \/ UserPrompt
  \/ AssistantMessage
  \/ ToolMessage
  \/ PrepareLlmPrompt
TruncSpec == Init /\ [][NextTrunc]_vars

\* One stream message from the queue to the frontend
NextFilter == StreamArrives \/ FlushStream
FilterSpec == Init /\ [][NextFilter]_vars

\* One replace_in_file call and the editor's answer
NextReplace == ReplaceInFile \/ EditorReplaces \/ EditorFails \/ ReplaceReturns
ReplaceSpec == Init /\ [][NextReplace]_vars

\* One comparison of a search line with a file line
NextCompare == ComparesLines \/ TestsThreshold
CompareSpec == Init /\ [][NextCompare]_vars

\* One diff written by the LLM and parsed
NextParse == WritesDiff \/ ParsesDiff
ParseSpec == Init /\ [][NextParse]_vars

====
